---- MODULE Spec2Model ----
(***************************************************************************)
(* FinWatch (DocumentSourceAgent) backend: job launches and the run guard, *)
(* the download agent's ingestion-retry life cycle, and the WebWatch       *)
(* agent's page-snapshot life cycle.                                       *)
(*                                                                         *)
(* The specifications of this module each leave the variables of the      *)
(* other subsystems at their initial values:                               *)
(*   SpecJobs      app/api/jobs.py, app/api/companies.py, app/tasks.py,    *)
(*                 app/services/{run_guard,job_run_service,                *)
(*                 scheduler_service,pipeline_service}.py                  *)
(*   SpecDownload  app/agents/download_agent.py, app/workflow/graph.py,    *)
(*                 app/api/documents.py: one URL, the operator, the clock  *)
(*   SpecPipeline  the same pipeline runs over two URLs, no operator       *)
(*   SpecWebwatch  app/agents/webwatch_agent.py                            *)
(*   SpecScheduler the scheduler loop and the worker, hour by hour         *)
(*   SpecStages    app/agents/{classify,parse,extract}_agent.py            *)
(*   SpecQueue     download_agent._build_download_queue over long retry    *)
(*                 tables                                                  *)
(*   SpecDownloadCall, SpecRequest, SpecRequestFair                        *)
(*                 download_agent._download and                            *)
(*                 app/utils/http_client.py                                *)
(*   SpecCrawlControl  app/utils/crawl_control.py and the guarded request  *)
(*                 of app/agents/crawl_agent.py                            *)
(*   SpecStream    the run-events stream of app/api/jobs.py                *)
(***************************************************************************)
EXTENDS Integers, Sequences, FiniteSets, TLC

VARIABLES
    \* ---- jobs subsystem ----
    job_runs,       \* table job_runs: sequence of rows, the run_id is the index
    held,           \* run_guard._lock_registry: the buckets whose lock is held
    req,            \* the API requests and how far the handler of each has got
    celery_queue,   \* tasks dispatched to the Celery broker and not yet taken
    worker,         \* Celery worker processes: the task each is executing
    sched,          \* LocalSchedulerLoop thread and its stored settings
    now,            \* wall clock, in hours
    \* ---- download subsystem ----
    site,           \* the PDF URLs the company's website links to
    registry,       \* table document_registry, by document_url
    retries,        \* table ingestion_retries: sequence of rows
    change_log,     \* table change_logs: sequence of rows
    error_log,      \* table error_logs: sequence of rows
    dl,             \* the pipeline run in progress (state of the graph)
    dnow,           \* wall clock of the download subsystem, in minutes
    digest,         \* the payload the last run_daily_digest returned
    disk,           \* the files under the download folder: path and content
    fetch,          \* the last call of _process_one that worked on the disk
    \* ---- webwatch subsystem ----
    snapshots,      \* table page_snapshots (committed), by page_url
    page_changes,   \* table page_changes (committed): sequence of rows
    ww,             \* per session: its WebWatch pass in progress and its DB session
    \* ---- the stages after the download ----
    stage,          \* the classify/parse/extract stage in progress
    doc_rows,       \* document_registry as the later stages see it, by id
    metadata_records,  \* table metadata_records, by document_id
    doc_files,      \* the files of the company's download folder, by path
    \* ---- the dashboard ----
    api_cache,      \* st.session_state["_api_cache"], by cache key
    ui,             \* the session's clock and calls, the backend's data
    \* ---- the database schema ----
    schema,         \* the columns of every table of the database
    migration,      \* the runs of the migration and of the patcher so far
    \* ---- the status polls of the dashboard ----
    poll,           \* the GET /jobs/status/run request in progress
    callers,        \* the threads that enter single-flight blocks
    \* ---- HTTP requests ----
    get,            \* the call of download_agent._download in progress
    http,           \* the call of http_client.request_with_retries in progress
    \* ---- crawl control and the run-events stream ----
    domain_control, \* crawl_control.domain_control and the threads that use it
    stream          \* one GET /jobs/events stream and the runs it polls

jobVars == <<job_runs, held, req, celery_queue, worker, sched, now>>
dlVars  == <<site, registry, retries, change_log, error_log, dl, dnow, digest,
            disk, fetch>>
wwVars  == <<snapshots, page_changes, ww>>
exVars  == <<stage, doc_rows, metadata_records, doc_files>>
apiVars == <<api_cache, ui>>
dbVars  == <<schema, migration>>
netVars == <<get, http, domain_control, stream>>
auxVars == <<exVars, apiVars, dbVars, poll, callers, netVars>>
vars    == <<job_runs, held, req, celery_queue, worker, sched, now,
             site, registry, retries, change_log, error_log, dl, dnow, digest,
             disk, fetch,
             snapshots, page_changes, ww,
             stage, doc_rows, metadata_records, doc_files,
             api_cache, ui, schema, migration, poll, callers, get, http,
             domain_control, stream>>

(***************************************************************************)
(* Bounds of the model.                                                    *)
(***************************************************************************)
MaxRuns == 2          \* job_runs rows created in one behaviour
MaxTicks == 1         \* steps of the jobs clock in one behaviour
TickInstants == <<0, 1, 3, 6, 25>>   \* the hours of the scheduler's clock (SpecScheduler)

Requests == {"r1", "r2"}         \* API requests, each served by its own threadpool thread
                                 \* of the one API process
Workers == {"w1"}                \* Celery worker processes
Companies == {1}                 \* ids of the rows of table companies
InactiveCompanies == {2}         \* ids of the rows whose active is false: db.get(Company, id)
                                 \* of the single-company endpoints loads them all the same
NoCompany == 0                   \* company_id = None
NoRun == 0                       \* no JobRun

(***************************************************************************)
(* JOBS: program constants                                                 *)
(***************************************************************************)
ACTIVE_STATUSES == {"QUEUED", "RUNNING", "RETRY", "RETRYING", "PENDING", "STARTED", "PROGRESS"}
WindowHours == 24                \* has_active_run(window_hours=24)
max_retries == 3                 \* @celery_app.task(max_retries=3) of run_pipeline
PipelineIntervalHours == 3       \* scheduler_pipeline_interval_minutes, clamped to 15..1440 minutes
WebwatchIntervalHours == 2       \* scheduler_webwatch_interval_minutes, clamped to 5..1440 minutes
DigestHourUtc == 1               \* scheduler_digest_hour_utc, clamped to 0..23; the minute is 0
DayHours == 24                   \* now.replace(hour=..., minute=...) stays within the UTC day of now
NoStamp == -1                    \* a setting that is not stored yet
TickHours == WindowHours + 1     \* one step of the jobs clock: it takes every run out of the window

QueuedOps == {"run", "run_all", "digest_now"}
DirectOps == {"run_direct", "run_all_direct"}
FleetOps == {"run_all", "run_all_direct"}
LaunchOps == QueuedOps \cup DirectOps
Ops == LaunchOps \cup {"intake_run", "tick_now"}

Bucket(op) ==
    IF op = "tick_now" THEN "scheduler-tick"
    ELSE IF op = "digest_now" THEN "digest-launch"
    ELSE IF op \in FleetOps THEN "pipeline-all-launch" ELSE "pipeline-launch"

Lowest(S) == CHOOSE x \in S : \A y \in S : x <= y

(***************************************************************************)
(* JOBS: job_run_service.py                                                *)
(***************************************************************************)
\* create_job_run: the row is added and committed; started_at only if RUNNING.
create_job_run(runs, trigger_type, mode, status, company_id, company_name) ==
    Append(runs, [trigger_type |-> trigger_type,
                  mode |-> mode,
                  status |-> status,
                  company_id |-> company_id,
                  company_name |-> company_name,
                  celery_job_id |-> FALSE,
                  result_payload |-> FALSE,
                  error_message |-> FALSE,
                  started_at |-> (status = "RUNNING"),
                  finished_at |-> FALSE,
                  created_at |-> now])

mark_running(runs, run_id) ==
    IF run_id \notin 1..Len(runs) THEN runs
    ELSE [runs EXCEPT ![run_id].status = "RUNNING", ![run_id].started_at = TRUE]

\* variant of mark_retrying: the run is recorded as FAILED
MarkRetryingAsFailed(runs, run_id) ==
    IF run_id \notin 1..Len(runs) THEN runs
    ELSE [runs EXCEPT ![run_id].status = "FAILED", ![run_id].error_message = TRUE,
                      ![run_id].finished_at = TRUE]
mark_retrying(runs, run_id) ==
    IF run_id \notin 1..Len(runs) THEN runs
    ELSE [runs EXCEPT ![run_id].status = "RETRYING", ![run_id].error_message = TRUE]

mark_done(runs, run_id) ==
    IF run_id \notin 1..Len(runs) THEN runs
    ELSE [runs EXCEPT ![run_id].status = "DONE", ![run_id].result_payload = TRUE,
                      ![run_id].finished_at = TRUE]

\* variant of mark_failed: the run is recorded as DONE
MarkFailedAsDone(runs, run_id) ==
    IF run_id \notin 1..Len(runs) THEN runs
    ELSE [runs EXCEPT ![run_id].status = "DONE", ![run_id].result_payload = TRUE,
                      ![run_id].finished_at = TRUE]
mark_failed(runs, run_id) ==
    IF run_id \notin 1..Len(runs) THEN runs
    ELSE [runs EXCEPT ![run_id].status = "FAILED", ![run_id].error_message = TRUE,
                      ![run_id].finished_at = TRUE]

(***************************************************************************)
(* JOBS: run_guard.py                                                      *)
(***************************************************************************)
has_active_run(trigger_types, company_id) ==
    \E i \in 1..Len(job_runs) :
        /\ job_runs[i].trigger_type \in trigger_types
        /\ job_runs[i].status \in ACTIVE_STATUSES
        /\ job_runs[i].created_at >= now - WindowHours
        /\ (company_id # NoCompany => job_runs[i].company_id = company_id)

\* variant of LockFree: the lock is never found held
LockFreeAlways(bucket) == TRUE
\* lock.acquire(blocking=False) succeeds iff nobody holds the bucket's lock.
LockFree(bucket) == bucket \notin held

\* The overlap checks each launch endpoint makes inside its guarded block.
Overlap(op, company_id) ==
    IF op = "digest_now"
    THEN has_active_run({"DIGEST"}, NoCompany)
    ELSE IF op \in FleetOps
    THEN has_active_run({"PIPELINE", "PIPELINE_ALL"}, NoCompany)
    ELSE \/ has_active_run({"PIPELINE_ALL"}, NoCompany)
         \/ has_active_run({"PIPELINE"}, company_id)

(***************************************************************************)
(* JOBS: the API handlers of jobs.py and companies.py, one step at a time  *)
(***************************************************************************)
IdleReq == [op |-> "none", pc |-> "new", run |-> NoRun, resp |-> 0,
            company |-> NoCompany, todo |-> {}, errors |-> {},
            busy |-> FALSE, triggers |-> {}, at |-> 0, tick_at |-> NoStamp]

Respond(t, code) == [req EXCEPT ![t].pc = "done", ![t].resp = code]

\* A request arrives.  The single-company endpoints first
\* load the company, active or not (404 otherwise); intake-run creates or
\* reuses the company, sets it active and commits before it runs the
\* pipeline, so it is requested for the active companies only.
LaunchRequest(t) ==
    /\ req[t].pc = "new"
    /\ \E op \in Ops, c \in Companies \cup InactiveCompanies \cup {NoCompany} :
        /\ (op \in FleetOps \cup {"digest_now", "tick_now"}) <=> (c = NoCompany)
        /\ c \in InactiveCompanies => op \in {"run", "run_direct"}
        /\ req' = [req EXCEPT ![t] = [IdleReq EXCEPT !.op = op, !.company = c,
                        !.pc = IF op = "intake_run" THEN "invoke" ELSE "acquire"]]
    /\ UNCHANGED <<job_runs, held, celery_queue, worker, sched, now, dlVars, wwVars, auxVars>>

\* with acquire_singleflight(bucket): 409 at once when the lock is held.
\* run_scheduler_tick_now catches the 409 and returns scheduler_status()
\* with busy true and no triggers.
acquire_singleflight(t) ==
    /\ req[t].pc = "acquire"
    /\ IF LockFree(Bucket(req[t].op))
       THEN /\ held' = held \cup {Bucket(req[t].op)}
            /\ req' = [req EXCEPT ![t].pc = IF req[t].op = "tick_now"
                                            THEN "tick" ELSE "check"]
       ELSE /\ held' = held
            /\ req' = IF req[t].op = "tick_now"
                      THEN [Respond(t, 200) EXCEPT ![t].busy = TRUE, ![t].triggers = {}]
                      ELSE Respond(t, 409)
    /\ UNCHANGED <<job_runs, celery_queue, worker, sched, now, dlVars, wwVars, auxVars>>

\* ensure_no_overlap(...): 409 when a similar run is active; the with-block
\* exits and releases the lock. The with-block of trigger_digest ends after
\* the check: the lock is released before _queue_task is called.
ensure_no_overlap(t) ==
    /\ req[t].pc = "check"
    /\ IF Overlap(req[t].op, req[t].company)
       THEN /\ held' = held \ {Bucket(req[t].op)}
            /\ req' = Respond(t, 409)
       ELSE /\ held' = IF req[t].op = "digest_now"
                       THEN held \ {Bucket(req[t].op)} ELSE held
            /\ req' = [req EXCEPT ![t].pc = "create"]
    /\ UNCHANGED <<job_runs, celery_queue, worker, sched, now, dlVars, wwVars, auxVars>>

\* create_job_run as the four launch endpoints call it.  run_all_direct then
\* loads the active companies.
launch_create_job_run(t) ==
    /\ req[t].pc = "create"
    /\ Len(job_runs) < MaxRuns
    /\ LET op == req[t].op
           c == req[t].company
       IN /\ job_runs' = create_job_run(job_runs,
                IF op = "digest_now" THEN "DIGEST"
                ELSE IF op \in FleetOps THEN "PIPELINE_ALL" ELSE "PIPELINE",
                IF op \in QueuedOps THEN "QUEUED" ELSE "DIRECT",
                IF op \in QueuedOps THEN "QUEUED" ELSE "RUNNING",
                c,
                IF op \in {"run_all", "digest_now"} THEN "NONE"
                ELSE IF op = "run_all_direct" THEN "ALL_ACTIVE_COMPANIES"
                ELSE "COMPANY")
          /\ req' = [req EXCEPT ![t].run = Len(job_runs) + 1,
                                ![t].pc = IF op \in QueuedOps THEN "dispatch" ELSE "invoke",
                                ![t].todo = IF op = "run_all_direct" THEN Companies ELSE {}]
    /\ UNCHANGED <<held, celery_queue, worker, sched, now, dlVars, wwVars, auxVars>>

\* _queue_task after create_job_run: enqueue(run_id) either returns a task,
\* whose id is stored, or raises; then mark_failed and HTTP 503.
queue_task(t) ==
    /\ req[t].pc = "dispatch"
    /\ \E ok \in BOOLEAN :
        IF ok
        THEN /\ celery_queue' = celery_queue \cup
                    {[name |-> IF req[t].op = "run_all" THEN "run_all_companies"
                               ELSE IF req[t].op = "digest_now" THEN "run_daily_digest"
                               ELSE "run_pipeline",
                      run_id |-> req[t].run, company |-> req[t].company, retries |-> 0]}
             /\ job_runs' = [job_runs EXCEPT ![req[t].run].celery_job_id = TRUE]
             /\ req' = Respond(t, 200)
        ELSE /\ celery_queue' = celery_queue
             /\ job_runs' = mark_failed(job_runs, req[t].run)
             /\ req' = Respond(t, 503)
    /\ held' = IF req[t].op = "digest_now" THEN held ELSE held \ {Bucket(req[t].op)}
    /\ UNCHANGED <<worker, sched, now, dlVars, wwVars, auxVars>>

\* The direct endpoints and intake-run reach pipeline_graph.invoke (through
\* _run_company_sync / run_company_sync); run_all_direct does so once per
\* company and marks the run DONE when none is left.
run_company_sync(t) ==
    /\ req[t].pc = "invoke"
    /\ IF req[t].op = "run_all_direct"
       THEN IF req[t].todo = {}
            THEN /\ job_runs' = mark_done(job_runs, req[t].run)
                 /\ req' = Respond(t, 200)
                 /\ held' = held \ {Bucket(req[t].op)}
            ELSE /\ req' = [req EXCEPT ![t].pc = "graph", ![t].company = Lowest(req[t].todo)]
                 /\ UNCHANGED <<job_runs, held>>
       ELSE /\ req' = [req EXCEPT ![t].pc = "graph"]
            /\ UNCHANGED <<job_runs, held>>
    /\ UNCHANGED <<celery_queue, worker, sched, now, dlVars, wwVars, auxVars>>

\* pipeline_graph.invoke returns or raises.
pipeline_graph_return(t) ==
    /\ req[t].pc = "graph"
    /\ \E ok \in BOOLEAN :
        LET errors == IF ok THEN req[t].errors ELSE req[t].errors \cup {req[t].company}
        IN
        CASE req[t].op = "run_all_direct" ->
                /\ req' = [req EXCEPT ![t].pc = "invoke", ![t].todo = @ \ {req[t].company},
                                      ![t].company = NoCompany,
                                      ![t].errors = errors]
                /\ UNCHANGED <<job_runs, held>>
          [] req[t].op = "run_direct" ->
                /\ job_runs' = IF ok THEN mark_done(job_runs, req[t].run)
                               ELSE mark_failed(job_runs, req[t].run)
                /\ req' = [Respond(t, IF ok THEN 200 ELSE 500) EXCEPT ![t].errors = errors]
                /\ held' = held \ {Bucket(req[t].op)}
          [] OTHER ->
                /\ req' = [Respond(t, IF ok THEN 200 ELSE 500) EXCEPT ![t].errors = errors]
                /\ UNCHANGED <<job_runs, held>>
    /\ UNCHANGED <<celery_queue, worker, sched, now, dlVars, wwVars, auxVars>>

(***************************************************************************)
(* JOBS: the Celery tasks of tasks.py, executed by a worker                *)
(***************************************************************************)
IdleWorker == [name |-> "none", pc |-> "idle", run_id |-> NoRun,
               company |-> NoCompany, retries |-> 0, todo |-> {}]

\* A worker takes a task off the queue and enters the task function, which
\* first calls mark_running(run_id).
worker_take(w) ==
    /\ worker[w].pc = "idle"
    /\ \E task \in celery_queue :
        /\ celery_queue' = celery_queue \ {task}
        /\ worker' = [worker EXCEPT ![w] =
                [name |-> task.name, run_id |-> task.run_id, company |-> task.company,
                 retries |-> task.retries,
                 pc |-> IF task.name = "run_pipeline" THEN "graph"
                        ELSE IF task.name = "run_daily_digest" THEN "digest"
                        ELSE IF task.name = "run_hourly_webwatch" THEN "webwatch"
                        ELSE "loop",
                 todo |-> IF task.name = "run_all_companies" THEN Companies ELSE {}]]
        /\ job_runs' = mark_running(job_runs, task.run_id)
    /\ UNCHANGED <<held, req, sched, now, dlVars, wwVars, auxVars>>

\* run_all_companies: one pass of its loop (create the child run, dispatch
\* run_pipeline for it), or the end of the loop.  A dispatch that raises
\* leaves the loop through the except clause: mark_failed(parent_run_id).
run_all_companies(w) ==
    /\ worker[w].pc = "loop"
    /\ IF worker[w].todo = {}
       THEN /\ job_runs' = mark_done(job_runs, worker[w].run_id)
            /\ worker' = [worker EXCEPT ![w] = IdleWorker]
            /\ celery_queue' = celery_queue
       ELSE /\ Len(job_runs) < MaxRuns
            /\ LET c == Lowest(worker[w].todo)
                   child == Len(job_runs) + 1
                   created == create_job_run(job_runs, "PIPELINE", "QUEUED", "QUEUED", c, "COMPANY")
               IN \E ok \in BOOLEAN :
                    IF ok
                    THEN /\ celery_queue' = celery_queue \cup
                                {[name |-> "run_pipeline", run_id |-> child,
                                  company |-> c, retries |-> 0]}
                         /\ job_runs' = [created EXCEPT ![child].celery_job_id = TRUE]
                         /\ worker' = [worker EXCEPT ![w].todo = @ \ {c}]
                    ELSE /\ celery_queue' = celery_queue
                         /\ job_runs' = mark_failed(created, worker[w].run_id)
                         /\ worker' = [worker EXCEPT ![w] = IdleWorker]
    /\ UNCHANGED <<held, req, sched, now, dlVars, wwVars, auxVars>>

\* run_pipeline: pipeline_graph.invoke returns (mark_done) or raises: then
\* mark_retrying and self.retry while retries < max_retries, else mark_failed.
task_run_pipeline(w) ==
    /\ worker[w].pc = "graph"
    /\ \E ok \in BOOLEAN :
        IF ok
        THEN /\ job_runs' = mark_done(job_runs, worker[w].run_id)
             /\ celery_queue' = celery_queue
        ELSE IF worker[w].retries < max_retries
        THEN /\ job_runs' = mark_retrying(job_runs, worker[w].run_id)
             /\ celery_queue' = celery_queue \cup
                    {[name |-> "run_pipeline", run_id |-> worker[w].run_id,
                      company |-> worker[w].company, retries |-> worker[w].retries + 1]}
        ELSE /\ job_runs' = mark_failed(job_runs, worker[w].run_id)
             /\ celery_queue' = celery_queue
    /\ worker' = [worker EXCEPT ![w] = IdleWorker]
    /\ UNCHANGED <<held, req, sched, now, dlVars, wwVars, auxVars>>

\* run_hourly_webwatch(run_id): the passes over the active companies, then
\* mark_done; an exception leads to mark_failed.
task_run_hourly_webwatch(w) ==
    /\ worker[w].pc = "webwatch"
    /\ \E ok \in BOOLEAN :
        job_runs' = IF ok THEN mark_done(job_runs, worker[w].run_id)
                    ELSE mark_failed(job_runs, worker[w].run_id)
    /\ worker' = [worker EXCEPT ![w] = IdleWorker]
    /\ UNCHANGED <<held, req, celery_queue, sched, now, dlVars, wwVars, auxVars>>

(***************************************************************************)
(* JOBS: GET /jobs/status/run/{run_id} (jobs.py), one poll at a time       *)
(***************************************************************************)
MaxPolls == 2
IdlePoll == [pc |-> "idle", run |-> NoRun, loaded |-> "none",
             celery_status |-> "none", polls |-> 0]

\* the task of the run is in the queue or at a worker
TaskUnfinished(run_id) ==
    \/ \E task \in celery_queue : task.run_id = run_id
    \/ \E w \in Workers : worker[w].pc # "idle" /\ worker[w].run_id = run_id
TaskRetried(run_id) ==
    \/ \E task \in celery_queue : task.run_id = run_id /\ task.retries > 0
    \/ \E w \in Workers :
        worker[w].pc # "idle" /\ worker[w].run_id = run_id /\ worker[w].retries > 0
\* AsyncResult(celery_job_id).status: PENDING until the task has finished
\* (started tasks are not tracked), RETRY once it has been retried
AsyncResultStatuses(run_id) ==
    IF TaskUnfinished(run_id)
    THEN IF TaskRetried(run_id) THEN {"RETRY"} ELSE {"PENDING"}
    ELSE {"SUCCESS", "FAILURE"}

\* job_status_by_run_id up to its call of _sync_run_status_from_celery: the
\* row is loaded into the session, and the status of the task is read if the
\* run has a task and is not DONE or FAILED
job_status_by_run_id ==
    /\ poll.pc = "idle"
    /\ poll.polls < MaxPolls
    /\ \E run_id \in 1..Len(job_runs) :
        IF job_runs[run_id].celery_job_id /\ job_runs[run_id].status \notin {"DONE", "FAILED"}
        THEN \E celery_status \in AsyncResultStatuses(run_id) :
                poll' = [pc |-> "sync", run |-> run_id, loaded |-> job_runs[run_id].status,
                         celery_status |-> celery_status, polls |-> poll.polls + 1]
        ELSE poll' = [poll EXCEPT !.polls = poll.polls + 1]
    /\ UNCHANGED <<jobVars, dlVars, wwVars, exVars, apiVars, dbVars, callers, netVars>>

\* the row as the mark_ function of the task status leaves it
synced_run(runs, run_id, celery_status) ==
    IF celery_status \in {"PENDING", "RECEIVED", "STARTED", "PROGRESS"}
    THEN mark_running(runs, run_id)
    ELSE IF celery_status = "RETRY" THEN mark_retrying(runs, run_id)
    ELSE IF celery_status = "SUCCESS" THEN mark_done(runs, run_id)
    ELSE IF celery_status \in {"FAILURE", "REVOKED"} THEN mark_failed(runs, run_id)
    ELSE runs

\* _sync_run_status_from_celery and the answer: get_by_run_id returns the
\* row the session has loaded already, so the test for DONE and FAILED and
\* the mark_ function see the status as it was loaded; the commit writes the
\* columns that were assigned a value other than the loaded one
_sync_run_status_from_celery ==
    /\ poll.pc = "sync"
    /\ LET marked == synced_run(job_runs, poll.run, poll.celery_status)
       IN  job_runs' =
                IF marked[poll.run].status = poll.loaded
                THEN [marked EXCEPT ![poll.run].status = job_runs[poll.run].status]
                ELSE marked
    /\ poll' = [poll EXCEPT !.pc = "idle"]
    /\ UNCHANGED <<held, req, celery_queue, worker, sched, now, dlVars, wwVars,
                   exVars, apiVars, dbVars, callers, netVars>>

(***************************************************************************)
(* JOBS: run_guard.acquire_singleflight, its callers one by one            *)
(***************************************************************************)
Callers == {"t1", "t2"}          \* threads of the API process
MaxEntries == 2                  \* with-blocks a thread enters or is refused
\* a bucket name as a caller writes it: the name in lower case without
\* blanks around it, whether it is written in capitals, whether blanks
\* surround it
BucketNames ==
    [text : {"pipeline-launch", "scheduler-tick"}, upper : BOOLEAN, spaces : BOOLEAN]
NoBucket == [text |-> "", upper |-> FALSE, spaces |-> FALSE]
IdleCaller == [pc |-> "idle", bucket |-> NoBucket, key |-> "", resp |-> 0, entries |-> 0]

strip(name) == [name EXCEPT !.spaces = FALSE]
lower(name) == [name EXCEPT !.upper = FALSE]
\* key = (bucket or "global").strip().lower()
singleflight_key(bucket) ==
    LET name == IF bucket = NoBucket THEN [NoBucket EXCEPT !.text = "global"] ELSE bucket
    IN  lower(strip(name)).text

\* with acquire_singleflight(bucket): lock.acquire(blocking=False) on the
\* lock of the key; HTTP 409 at once when it is held
singleflight_enter(c) ==
    /\ callers[c].pc \in {"idle", "done"}
    /\ callers[c].entries < MaxEntries
    /\ \E bucket \in BucketNames :
        LET key == singleflight_key(bucket)
        IN  IF LockFree(key)
            THEN /\ held' = held \cup {key}
                 /\ callers' = [callers EXCEPT ![c] =
                        [pc |-> "block", bucket |-> bucket, key |-> key, resp |-> 0,
                         entries |-> callers[c].entries + 1]]
            ELSE /\ held' = held
                 /\ callers' = [callers EXCEPT ![c] =
                        [pc |-> "done", bucket |-> bucket, key |-> key, resp |-> 409,
                         entries |-> callers[c].entries + 1]]
    /\ UNCHANGED <<job_runs, req, celery_queue, worker, sched, now, dlVars, wwVars,
                   exVars, apiVars, dbVars, poll, netVars>>

\* the guarded block ends, by its last statement or by an exception: the
\* finally clause releases the lock
singleflight_exit(c) ==
    /\ callers[c].pc = "block"
    /\ \E raised \in BOOLEAN :
        callers' = [callers EXCEPT ![c].pc = "done",
                                   ![c].resp = IF raised THEN 500 ELSE 200]
    /\ held' = held \ {callers[c].key}
    /\ UNCHANGED <<job_runs, req, celery_queue, worker, sched, now, dlVars, wwVars,
                   exVars, apiVars, dbVars, poll, netVars>>

(***************************************************************************)
(* JOBS: scheduler_service.py (the scheduler enabled)                      *)
(***************************************************************************)
\* The triggers of a tick, in the order scheduler_tick decides them.
TickTriggers == <<"PIPELINE_ALL", "WEBWATCH", "DIGEST">>

\* The task _queue_trigger dispatches for a trigger type.
trigger_task(type) ==
    IF type = "PIPELINE_ALL" THEN "run_all_companies"
    ELSE IF type = "WEBWATCH" THEN "run_hourly_webwatch" ELSE "run_daily_digest"

\* variant of trigger_due: the digest's stamp is not compared
DueWhateverTheStamp(last, type, tick_at) ==
    IF type = "DIGEST"
    THEN /\ tick_at >= (tick_at \div DayHours) * DayHours + DigestHourUtc
         /\ ~has_active_run({"DIGEST"}, NoCompany)
    ELSE /\ last[type] # NoStamp
         /\ tick_at - last[type] >= (IF type = "PIPELINE_ALL" THEN PipelineIntervalHours
                                     ELSE WebwatchIntervalHours)
         /\ ~has_active_run(IF type = "PIPELINE_ALL" THEN {"PIPELINE", "PIPELINE_ALL"}
                            ELSE {"WEBWATCH"}, NoCompany)
\* The condition under which scheduler_tick calls _queue_trigger(type); last
\* holds the scheduler_last_*_run_at settings.  A digest stamp that is not
\* stored counts as the tick time.
\* variant of trigger_due: the active runs are not looked at
DueWhateverIsActive(last, type, tick_at) ==
    IF type = "DIGEST"
    THEN LET digest_last == IF last[type] = NoStamp THEN tick_at ELSE last[type]
             due_digest_time == (tick_at \div DayHours) * DayHours + DigestHourUtc
         IN tick_at >= due_digest_time /\ digest_last < due_digest_time
    ELSE /\ last[type] # NoStamp
         /\ tick_at - last[type] >= (IF type = "PIPELINE_ALL" THEN PipelineIntervalHours
                                     ELSE WebwatchIntervalHours)
\* The condition under which scheduler_tick calls _queue_trigger(type); last
\* holds the scheduler_last_*_run_at settings and tick_at the time the tick
\* read when it began.  A digest stamp that is not stored counts as the tick
\* time.  has_active_run reads the clock itself.
trigger_due(last, type, tick_at) ==
    IF type = "DIGEST"
    THEN LET digest_last == IF last[type] = NoStamp THEN tick_at ELSE last[type]
             due_digest_time == (tick_at \div DayHours) * DayHours + DigestHourUtc
         IN /\ tick_at >= due_digest_time
            /\ digest_last < due_digest_time
            /\ ~has_active_run({"DIGEST"}, NoCompany)
    ELSE /\ last[type] # NoStamp
         /\ tick_at - last[type] >= (IF type = "PIPELINE_ALL" THEN PipelineIntervalHours
                                     ELSE WebwatchIntervalHours)
         /\ ~has_active_run(IF type = "PIPELINE_ALL" THEN {"PIPELINE", "PIPELINE_ALL"}
                            ELSE {"WEBWATCH"}, NoCompany)

\* scheduler_tick from its i-th trigger on, up to the first _queue_trigger
\* it calls (at is that trigger's place) or to its end (at is 0).  A trigger
\* that has no stamp yet gets the tick time as its stamp and is not queued.
RECURSIVE tick_scan(_, _, _)
tick_scan(last, i, tick_at) ==
    IF i > Len(TickTriggers) THEN [last |-> last, at |-> 0]
    ELSE IF trigger_due(last, TickTriggers[i], tick_at) THEN [last |-> last, at |-> i]
    ELSE tick_scan(IF last[TickTriggers[i]] = NoStamp
                   THEN [last EXCEPT ![TickTriggers[i]] = tick_at] ELSE last,
                   i + 1, tick_at)

\* LocalSchedulerLoop._run takes the "scheduler-tick" lock and scheduler_tick
\* reads the clock and runs up to its first _queue_trigger, or to its end.
scheduler_tick ==
    /\ sched.pc = "sleep"
    /\ LockFree("scheduler-tick")
    /\ LET r == tick_scan(sched.last, 1, now)
       IN /\ sched' = [pc |-> IF r.at = 0 THEN "sleep" ELSE "trigger",
                       at |-> r.at, last |-> r.last,
                       tick_at |-> IF r.at = 0 THEN NoStamp ELSE now]
          /\ held' = IF r.at = 0 THEN held ELSE held \cup {"scheduler-tick"}
    /\ UNCHANGED <<job_runs, req, celery_queue, worker, now, dlVars, wwVars, auxVars>>

\* _queue_trigger(trigger_type): create the run and dispatch its task, then
\* the stamp and the rest of the tick; if the dispatch raises, mark_failed
\* and the tick ends in its except clause without the stamp.
queue_trigger ==
    /\ sched.pc = "trigger"
    /\ Len(job_runs) < MaxRuns
    /\ LET run_id == Len(job_runs) + 1
           type == TickTriggers[sched.at]
           created == create_job_run(job_runs, type, "QUEUED", "QUEUED",
                                     NoCompany, "ALL_ACTIVE_COMPANIES")
           r == tick_scan([sched.last EXCEPT ![type] = sched.tick_at],
                          sched.at + 1, sched.tick_at)
       IN \E ok \in BOOLEAN :
            IF ok
            THEN /\ celery_queue' = celery_queue \cup
                        {[name |-> trigger_task(type), run_id |-> run_id,
                          company |-> NoCompany, retries |-> 0]}
                 /\ job_runs' = [created EXCEPT ![run_id].celery_job_id = TRUE]
                 /\ sched' = [pc |-> IF r.at = 0 THEN "sleep" ELSE "trigger",
                              at |-> r.at, last |-> r.last,
                              tick_at |-> IF r.at = 0 THEN NoStamp ELSE sched.tick_at]
                 /\ held' = IF r.at = 0 THEN held \ {"scheduler-tick"} ELSE held
            ELSE /\ celery_queue' = celery_queue
                 /\ job_runs' = mark_failed(created, run_id)
                 /\ sched' = [sched EXCEPT !.pc = "sleep", !.at = 0, !.tick_at = NoStamp]
                 /\ held' = held \ {"scheduler-tick"}
    /\ UNCHANGED <<req, worker, now, dlVars, wwVars, auxVars>>

\* POST /jobs/scheduler/tick inside its with-block: scheduler_tick() up to
\* its first _queue_trigger, or to its end
tick_now(t) ==
    /\ req[t].pc = "tick"
    /\ LET r == tick_scan(sched.last, 1, now)
       IN /\ sched' = [sched EXCEPT !.last = r.last]
          /\ held' = IF r.at = 0 THEN held \ {"scheduler-tick"} ELSE held
          /\ req' = IF r.at = 0 THEN Respond(t, 200)
                    ELSE [req EXCEPT ![t].pc = "tick_trigger", ![t].at = r.at,
                                     ![t].tick_at = now]
    /\ UNCHANGED <<job_runs, celery_queue, worker, now, dlVars, wwVars, auxVars>>

\* the _queue_trigger of that tick, then the rest of the tick and the end of
\* the with-block
tick_now_trigger(t) ==
    /\ req[t].pc = "tick_trigger"
    /\ Len(job_runs) < MaxRuns
    /\ LET run_id == Len(job_runs) + 1
           type == TickTriggers[req[t].at]
           created == create_job_run(job_runs, type, "QUEUED", "QUEUED",
                                     NoCompany, "ALL_ACTIVE_COMPANIES")
           r == tick_scan([sched.last EXCEPT ![type] = req[t].tick_at],
                          req[t].at + 1, req[t].tick_at)
           queued == [req EXCEPT ![t].run = run_id, ![t].triggers = @ \cup {type}]
       IN \E ok \in BOOLEAN :
            IF ok
            THEN /\ celery_queue' = celery_queue \cup
                        {[name |-> trigger_task(type), run_id |-> run_id,
                          company |-> NoCompany, retries |-> 0]}
                 /\ job_runs' = [created EXCEPT ![run_id].celery_job_id = TRUE]
                 /\ sched' = [sched EXCEPT !.last = r.last]
                 /\ req' = IF r.at = 0
                           THEN [queued EXCEPT ![t].pc = "done", ![t].resp = 200]
                           ELSE [queued EXCEPT ![t].at = r.at]
                 /\ held' = IF r.at = 0 THEN held \ {"scheduler-tick"} ELSE held
            ELSE /\ celery_queue' = celery_queue
                 /\ job_runs' = mark_failed(created, run_id)
                 /\ sched' = sched
                 /\ req' = [req EXCEPT ![t].pc = "done", ![t].resp = 200,
                                       ![t].run = run_id]
                 /\ held' = held \ {"scheduler-tick"}
    /\ UNCHANGED <<worker, now, dlVars, wwVars, auxVars>>

\* Time passes up to the next of the instants at which ticks are observed.
SchedulerClock ==
    /\ \E k \in 1..(Len(TickInstants) - 1) :
        /\ now = TickInstants[k]
        /\ now' = TickInstants[k + 1]
    /\ UNCHANGED <<job_runs, held, req, celery_queue, worker, sched, dlVars, wwVars, auxVars>>

\* Time passes.
AdvanceClock ==
    /\ now + TickHours <= MaxTicks * TickHours
    /\ now' = now + TickHours
    /\ UNCHANGED <<job_runs, held, req, celery_queue, worker, sched, dlVars, wwVars, auxVars>>

(***************************************************************************)
(* Download subsystem: app/agents/download_agent.py, the graph around it   *)
(* (app/workflow/graph.py) and the operator's PATCH /documents/retries/id  *)
(***************************************************************************)
MaxProcessed == 4       \* _process_one calls over all the runs, SpecDownload
MaxPipelineProcessed == 3   \* the same, SpecPipeline
MaxDlTicks == 1         \* advances of the download subsystem's clock
MaxPatches == 1         \* PATCH requests of the operator

UrlList == <<"u1", "u2", "u3">>
Urls == {UrlList[k] : k \in 1..Len(UrlList)}
NoneV == "None"
\* (etag, last_mod) that _head_request returns: no validators, or an ETag
\* with one of two Last-Modified values
HeadResponses ==
    {[etag |-> NoneV, last_mod |-> NoneV],
     [etag |-> "e1", last_mod |-> "m1"],
     [etag |-> "e1", last_mod |-> "m2"]}
Hashes == {"h1", "h2"}              \* sha256 of a downloaded file
DownloadErrors == {"DOWNLOAD_FAILED"}
MAX_RETRY_ATTEMPTS == 3
RetryQueueLimit == 50
NoTime == -1                        \* next_retry_at IS NULL
NoDoc == [status |-> "ABSENT"]      \* no document_registry row for the URL
RetryStatuses == {"PENDING", "DEAD", "RESOLVED"}

Min(a, b) == IF a <= b THEN a ELSE b
Max(a, b) == IF a >= b THEN a ELSE b
Highest(S) == CHOOSE x \in S : \A y \in S : y <= x
Range(s) == {s[k] : k \in 1..Len(s)}

\* retry_minutes in _upsert_retry_entry: the backoff after the given number
\* of failures, in minutes
\* variant of retry_minutes: a backoff that does not grow
ConstantBackoff(failure_count) == 2 * 5
retry_minutes(failure_count) == Min(240, (2 ^ failure_count) * 5)
\* the clock advances by the shortest backoff
ClockStep == retry_minutes(1)
\* next_retry_in_minutes values the operator sends with a PATCH
PatchDelays == {0, ClockStep}

\* variant of UnresolvedIds: RESOLVED rows too
AnyStatusIds(rows, company_id, url) ==
    {i \in 1..Len(rows) :
        rows[i].company_id = company_id /\ rows[i].document_url = url}

\* rows of (company, url) that are PENDING or DEAD: the filter shared by
\* _upsert_retry_entry and _resolve_retry_entry
UnresolvedIds(rows, company_id, url) ==
    {i \in 1..Len(rows) :
        /\ rows[i].company_id = company_id
        /\ rows[i].document_url = url
        /\ rows[i].status \in {"PENDING", "DEAD"}}

\* failure_count that _upsert_retry_entry leaves on the row it writes
upsert_failure_count(rows, company_id, url) ==
    LET ids == UnresolvedIds(rows, company_id, url)
    IN  IF ids = {} THEN 1 ELSE rows[Highest(ids)].failure_count + 1

_upsert_retry_entry(rows, company_id, url, at) ==
    LET ids == UnresolvedIds(rows, company_id, url)
        count == upsert_failure_count(rows, company_id, url)
        dead == count >= MAX_RETRY_ATTEMPTS
        row == [company_id |-> company_id,
                document_url |-> url,
                status |-> IF dead THEN "DEAD" ELSE "PENDING",
                failure_count |-> count,
                next_retry_at |-> IF dead THEN NoTime ELSE at + retry_minutes(count)]
    IN  IF ids = {} THEN Append(rows, row)
        ELSE [rows EXCEPT ![Highest(ids)] = row]

\* variant of _resolve_retry_entry: DEAD rows are left alone
ResolvePendingOnly(rows, company_id, url) ==
    [i \in 1..Len(rows) |->
        IF i \in UnresolvedIds(rows, company_id, url) /\ rows[i].status = "PENDING"
        THEN [rows[i] EXCEPT !.status = "RESOLVED", !.next_retry_at = NoTime]
        ELSE rows[i]]

_resolve_retry_entry(rows, company_id, url) ==
    [i \in 1..Len(rows) |->
        IF i \in UnresolvedIds(rows, company_id, url)
        THEN [rows[i] EXCEPT !.status = "RESOLVED", !.next_retry_at = NoTime]
        ELSE rows[i]]

\* variant of _record_change: no row for UPDATED
RecordNewOnly(log, url, change_type) ==
    IF change_type = "NEW"
    THEN Append(log, [document_url |-> url, change_type |-> change_type])
    ELSE log

_record_change(log, url, change_type) ==
    Append(log, [document_url |-> url, change_type |-> change_type])

_log_error(log, url, error_type) ==
    Append(log, [document_url |-> url, error_type |-> error_type])

\* ErrorLog rows of one failed download: the download error, then the
\* DEAD_LETTER row of _upsert_retry_entry when the count reached the maximum
log_failure(log, rows, company_id, url, error_type) ==
    LET logged == _log_error(log, url, error_type)
    IN  IF upsert_failure_count(rows, company_id, url) >= MAX_RETRY_ATTEMPTS
        THEN _log_error(logged, url, "DEAD_LETTER")
        ELSE logged

\* variant of DueRetryIds: every PENDING row, due or not
AllPendingIds(rows, company_id, at) ==
    {i \in 1..Len(rows) :
        rows[i].company_id = company_id /\ rows[i].status = "PENDING"}

\* the retry rows _build_download_queue selects, ORDER BY next_retry_at,
\* created_at (rows are created in index order)
DueRetryIds(rows, company_id, at) ==
    {i \in 1..Len(rows) :
        /\ rows[i].company_id = company_id
        /\ rows[i].status = "PENDING"
        /\ rows[i].failure_count < MAX_RETRY_ATTEMPTS
        /\ (rows[i].next_retry_at = NoTime \/ rows[i].next_retry_at <= at)}

\* the k-th member of S in the given order, for every k
Sorted(S, before(_, _)) ==
    [k \in 1..Cardinality(S) |->
        CHOOSE i \in S : Cardinality({j \in S : before(j, i)}) = k - 1]

\* variant of OrderRetryIds: ORDER BY created_at alone
OrderByCreation(rows, S) == Sorted(S, LAMBDA i, j : i < j)
\* ORDER BY next_retry_at, created_at: rows are created in index order
OrderRetryIds(rows, S) ==
    Sorted(S, LAMBDA i, j :
                \/ rows[i].next_retry_at < rows[j].next_retry_at
                \/ (rows[i].next_retry_at = rows[j].next_retry_at /\ i < j))

\* the loops of _build_download_queue: a URL is appended unless it is in the
\* queue already or comes earlier in the list
AppendUnseen(queue, urls) ==
    LET unseen == {k \in 1..Len(urls) :
                    /\ urls[k] \notin Range(queue)
                    /\ \A m \in 1..(k - 1) : urls[m] # urls[k]}
        kept == Sorted(unseen, LAMBDA k, m : k < m)
    IN  queue \o [n \in 1..Len(kept) |-> urls[kept[n]]]

_build_download_queue(pdf_urls, rows, company_id, at) ==
    LET ordered == OrderRetryIds(rows, DueRetryIds(rows, company_id, at))
        limited == SubSeq(ordered, 1, Min(Len(ordered), RetryQueueLimit))
        retry_urls == [k \in 1..Len(limited) |-> rows[limited[k]].document_url]
    IN  AppendUnseen(AppendUnseen(<<>>, pdf_urls), retry_urls)

\* variant of should_continue_after_crawl: the edge leads past webwatch
EdgeToDownload(state) ==
    IF state.pdf_urls # <<>> \/ state.page_changes # <<>> THEN "download_begin" ELSE "end"
should_continue_after_crawl(state) ==
    IF state.pdf_urls # <<>> \/ state.page_changes # <<>> THEN "webwatch" ELSE "end"

_update_has_changes(state) ==
    \/ \E k \in 1..Len(state.downloaded_docs) :
            state.downloaded_docs[k].status \in {"NEW", "UPDATED"}
    \/ Len(state.page_changes) > 0

\* list(set(...)): the members of a set in any order
Orderings(S) == {s \in [1..Cardinality(S) -> S] : Range(s) = S}
\* what crawl_agent can return as pdf_urls (a list made of the set all_urls)
\* and webwatch_agent can add to it, and the page_changes webwatch_agent can
\* return
PdfUrlLists == UNION {Orderings(S) : S \in SUBSET site}
PageChangeLists == {<<>>, <<"CONTENT_CHANGED">>}

\* PipelineState of the run in progress (pipeline_service.build_initial_state)
\* with the node the graph is at; first_change is the length of change_logs
\* when the run started, processed and patched count the _process_one calls
\* and the operator's PATCH requests so far
IdleDl ==
    [pc |-> "idle", company_id |-> NoCompany, pdf_urls |-> <<>>,
     page_changes |-> <<>>, queue |-> <<>>, downloaded_docs |-> <<>>,
     has_changes |-> FALSE, email_sent |-> FALSE, stages |-> <<>>,
     first_change |-> 0, processed |-> 0, patched |-> 0]

\* graph entry: the crawl node and the conditional edge after it
crawl_agent ==
    /\ dl.pc \in {"idle", "end", "raised"}
    /\ \E c \in Companies, found \in PdfUrlLists :
        LET state == [IdleDl EXCEPT !.company_id = c, !.pdf_urls = found,
                                    !.stages = <<"crawl">>,
                                    !.first_change = Len(change_log),
                                    !.processed = dl.processed,
                                    !.patched = dl.patched]
        IN  dl' = [state EXCEPT !.pc = should_continue_after_crawl(state)]
    /\ UNCHANGED <<site, registry, retries, change_log, error_log, dnow, digest, disk, fetch, jobVars, wwVars, auxVars>>

\* the webwatch node as the download stage sees it: page_changes and the
\* merged pdf_urls it returns
webwatch_returns ==
    /\ dl.pc = "webwatch"
    /\ \E changes \in PageChangeLists, new_pdf_urls \in PdfUrlLists :
        \E all_pdfs \in Orderings(Range(dl.pdf_urls) \cup Range(new_pdf_urls)) :
            dl' = [dl EXCEPT !.pc = "download_begin",
                             !.stages = Append(dl.stages, "webwatch"),
                             !.page_changes = changes,
                             !.pdf_urls = all_pdfs]
    /\ UNCHANGED <<site, registry, retries, change_log, error_log, dnow, digest, disk, fetch, jobVars, wwVars, auxVars>>

\* download_agent up to its loop
download_agent_begin ==
    /\ dl.pc = "download_begin"
    /\ dl' = [dl EXCEPT !.pc = "download",
                        !.stages = Append(dl.stages, "download"),
                        !.queue = _build_download_queue(dl.pdf_urls, retries, dl.company_id, dnow)]
    /\ UNCHANGED <<site, registry, retries, change_log, error_log, dnow, digest, disk, fetch, jobVars, wwVars, auxVars>>

\* one iteration of download_agent's loop; etag, last_mod is what the HEAD
\* request returns, ok and new_hash the outcome of the download; budget
\* bounds the number of iterations over all the runs
_process_one(budget) ==
    /\ dl.pc = "download"
    /\ dl.queue # <<>>
    /\ dl.processed < budget
    /\ \E head \in HeadResponses, ok \in BOOLEAN,
          new_hash \in Hashes, error_type \in DownloadErrors :
        LET url == Head(dl.queue)
            etag == head.etag
            last_mod == head.last_mod
            c == dl.company_id
            existing == registry[url] # NoDoc
            popped == [dl EXCEPT !.queue = Tail(dl.queue), !.processed = dl.processed + 1]
            result(status) == [popped EXCEPT !.downloaded_docs =
                                Append(dl.downloaded_docs, [url |-> url, status |-> status])]
        IN  IF /\ existing
               /\ etag # NoneV
               /\ registry[url].etag = etag
               /\ registry[url].last_modified_header = last_mod
            THEN
                /\ registry' = [registry EXCEPT ![url].status = "UNCHANGED"]
                /\ retries' = _resolve_retry_entry(retries, c, url)
                /\ dl' = result("UNCHANGED")
                /\ UNCHANGED <<change_log, error_log>>
            ELSE IF ~ok THEN
                /\ error_log' = log_failure(error_log, retries, c, url, error_type)
                /\ retries' = _upsert_retry_entry(retries, c, url, dnow)
                /\ IF existing
                   THEN /\ registry' = [registry EXCEPT ![url].status = "FAILED"]
                        /\ dl' = result("FAILED")
                   ELSE /\ dl' = popped
                        /\ UNCHANGED registry
                /\ UNCHANGED change_log
            ELSE IF existing THEN
                /\ IF new_hash = registry[url].file_hash
                   THEN /\ registry' = [registry EXCEPT ![url].status = "UNCHANGED",
                                                        ![url].etag = etag,
                                                        ![url].last_modified_header = last_mod]
                        /\ dl' = result("UNCHANGED")
                        /\ UNCHANGED change_log
                   ELSE /\ change_log' = _record_change(change_log, url, "UPDATED")
                        /\ registry' = [registry EXCEPT ![url].status = "UPDATED",
                                                        ![url].file_hash = new_hash,
                                                        ![url].etag = etag,
                                                        ![url].last_modified_header = last_mod]
                        /\ dl' = result("UPDATED")
                /\ retries' = _resolve_retry_entry(retries, c, url)
                /\ UNCHANGED error_log
            ELSE
                /\ registry' = [registry EXCEPT ![url] =
                                    [status |-> "NEW", company_id |-> c, file_hash |-> new_hash,
                                     etag |-> etag, last_modified_header |-> last_mod]]
                /\ change_log' = _record_change(change_log, url, "NEW")
                /\ retries' = _resolve_retry_entry(retries, c, url)
                /\ dl' = result("NEW")
                /\ UNCHANGED error_log
    /\ UNCHANGED <<site, dnow, digest, disk, fetch, jobVars, wwVars, auxVars>>

\* download_agent returns and the update_flags node runs
update_flags ==
    /\ dl.pc = "download"
    /\ dl.queue = <<>>
    /\ dl' = [dl EXCEPT !.pc = "flagged",
                        !.stages = Append(dl.stages, "update_flags"),
                        !.has_changes = _update_has_changes(dl)]
    /\ UNCHANGED <<site, registry, retries, change_log, error_log, dnow, digest, disk, fetch, jobVars, wwVars, auxVars>>

\* a node between update_flags and excel: it returns and the graph follows
\* its edge to the next node, or it raises and the invocation is over
graph_node(at, name, next) ==
    /\ dl.pc = at
    /\ \E ok \in BOOLEAN :
        dl' = [dl EXCEPT !.pc = IF ok THEN next ELSE "raised",
                         !.stages = Append(dl.stages, name)]
    /\ UNCHANGED <<site, registry, retries, change_log, error_log, dnow, digest, disk, fetch, jobVars, wwVars, auxVars>>

classify_agent == graph_node("flagged", "classify", "parse")
parse_agent == graph_node("parse", "parse", "extract")
extract_agent == graph_node("extract", "extract", "excel")

\* the conditional edge after excel
should_send_email(state) == IF state.has_changes THEN "email" ELSE "end"

excel_agent == graph_node("excel", "excel", should_send_email(dl))

\* what email_agent returns as email_sent: recipients tells whether
\* EmailSetting holds a recipient, smtp_ok whether _send_email succeeds
email_sent_of(state, recipients, smtp_ok) ==
    IF ~state.has_changes THEN FALSE
    ELSE IF ~recipients THEN FALSE
    ELSE smtp_ok

\* the email node; the query of the company or of the recipients may raise
email_agent ==
    /\ dl.pc = "email"
    /\ \E ok \in BOOLEAN, recipients \in BOOLEAN, smtp_ok \in BOOLEAN :
        dl' = [dl EXCEPT !.pc = IF ok THEN "end" ELSE "raised",
                         !.stages = Append(dl.stages, "email"),
                         !.email_sent = ok /\ email_sent_of(dl, recipients, smtp_ok)]
    /\ UNCHANGED <<site, registry, retries, change_log, error_log, dnow, digest, disk, fetch, jobVars, wwVars, auxVars>>

\* no digest task has run yet
NoDigest == [sent |-> FALSE, reason |-> "none", doc_changes |-> 0, page_changes |-> 0]

\* variant of digest_payload: no check for an empty window
DigestWithoutChanges(all_doc_changes, all_page_changes, recipients, smtp_ok) ==
    IF ~recipients
    THEN [sent |-> FALSE, reason |-> "No recipients configured",
          doc_changes |-> 0, page_changes |-> 0]
    ELSE [sent |-> smtp_ok, reason |-> "",
          doc_changes |-> Len(all_doc_changes),
          page_changes |-> Len(all_page_changes)]
\* the payload of run_daily_digest for the changes of the window
digest_payload(all_doc_changes, all_page_changes, recipients, smtp_ok) ==
    IF all_doc_changes = <<>> /\ all_page_changes = <<>>
    THEN [sent |-> FALSE, reason |-> "No changes in last 24h",
          doc_changes |-> 0, page_changes |-> 0]
    ELSE IF ~recipients
    THEN [sent |-> FALSE, reason |-> "No recipients configured",
          doc_changes |-> 0, page_changes |-> 0]
    ELSE [sent |-> smtp_ok, reason |-> "",
          doc_changes |-> Len(all_doc_changes),
          page_changes |-> Len(all_page_changes)]

\* the beat-scheduled run_daily_digest (no run_id). detected_at grows with
\* the rows of a table, so the rows not older than the cutoff are the last
\* rows of ChangeLog and of PageChange, from some row on
run_daily_digest ==
    /\ \E doc_cut \in 0..Len(change_log), page_cut \in 0..Len(page_changes),
          recipients \in BOOLEAN, smtp_ok \in BOOLEAN :
        digest' = digest_payload(
            SubSeq(change_log, doc_cut + 1, Len(change_log)),
            SubSeq(page_changes, page_cut + 1, Len(page_changes)),
            recipients, smtp_ok)
    /\ UNCHANGED <<site, registry, retries, change_log, error_log, dl, dnow, disk, fetch,
                   jobVars, wwVars, auxVars>>

\* run_daily_digest(run_id) as a worker executes it for a digest-now launch:
\* the payload and mark_done, or an exception and mark_failed
task_run_daily_digest(w) ==
    /\ worker[w].pc = "digest"
    /\ \E ok \in BOOLEAN, doc_cut \in 0..Len(change_log),
          page_cut \in 0..Len(page_changes),
          recipients \in BOOLEAN, smtp_ok \in BOOLEAN :
        IF ok
        THEN /\ digest' = digest_payload(
                    SubSeq(change_log, doc_cut + 1, Len(change_log)),
                    SubSeq(page_changes, page_cut + 1, Len(page_changes)),
                    recipients, smtp_ok)
             /\ job_runs' = mark_done(job_runs, worker[w].run_id)
        ELSE /\ digest' = digest
             /\ job_runs' = mark_failed(job_runs, worker[w].run_id)
    /\ worker' = [worker EXCEPT ![w] = IdleWorker]
    /\ UNCHANGED <<held, req, celery_queue, sched, now, site, registry, retries,
                   change_log, error_log, dl, dnow, disk, fetch, wwVars, auxVars>>

(***************************************************************************)
(* _process_one with the files it writes. A file is its path and its       *)
(* content; the content is the first five bytes and the sha256 of the whole *)
(***************************************************************************)
PDF_SIGNATURE == "%PDF-"
Payloads ==
    {[prefix |-> "%PDF-", sha256 |-> "h1"],
     [prefix |-> "%PDF-", sha256 |-> "h2"],
     [prefix |-> "<html", sha256 |-> "h3"]}
\* what the HEAD request returns in these calls: no validators, or e1 and m1
DiskHeadResponses == {h \in HeadResponses : h.last_mod # "m2"}
\* what the GET of _download ends with: every attempt raised, or a payload
NoPayload == [prefix |-> "", sha256 |-> ""]
NoPath == [folder |-> "none", name |-> "", version |-> 0]
NoFetch ==
    [calls |-> 0, url |-> "", payload |-> NoPayload, status |-> "none",
     error_type |-> "", local_path |-> NoPath, deduplicated |-> FALSE]

Exists(files, path) == \E f \in files : f.path = path
Versions(files, folder, name) ==
    {f.path.version : f \in {g \in files : g.path.folder = folder /\ g.path.name = name}}
\* the first name of the folder that no file has: base, base_v2, base_v3 ..
FreeVersion(files, folder, name) ==
    Lowest({v \in 1..(Cardinality(files) + 1) : v \notin Versions(files, folder, name)})
_safe_filename(files, url) ==
    [folder |-> "final", name |-> url, version |-> FreeVersion(files, "final", url)]

\* variant of _looks_like_pdf: every payload passes
AnySignature(payload) == TRUE
_looks_like_pdf(payload) == payload.prefix = PDF_SIGNATURE

\* the payload is at temp_dest; the move to _quarantine succeeds, or it
\* fails and _safe_remove deletes the file
_quarantine_file(files, url, payload, move_ok) ==
    IF move_ok
    THEN files \cup {[path |-> [folder |-> "quarantine", name |-> url,
                               version |-> FreeVersion(files, "quarantine", url)],
                     content |-> payload]}
    ELSE files

\* _download: the outcome and the files afterwards
_download(files, url, payload, move_ok) ==
    IF payload = NoPayload
    THEN [ok |-> FALSE, error_type |-> "DOWNLOAD_FAILED", path |-> NoPath,
          files |-> files]
    ELSE IF ~_looks_like_pdf(payload)
    THEN [ok |-> FALSE, error_type |-> "INVALID_PDF_SIGNATURE", path |-> NoPath,
          files |-> _quarantine_file(files, url, payload, move_ok)]
    ELSE LET final_dest == _safe_filename(files, url)
         IN  [ok |-> TRUE, error_type |-> "", path |-> final_dest,
              files |-> files \cup {[path |-> final_dest, content |-> payload]}]

_safe_remove(files, path) == {f \in files : f.path # path}

\* the rows _resolve_global_dedupe_path queries: another document with this
\* hash and a local_path
DedupeCandidates(rows, file_hash, exclude_url) ==
    {u \in Urls \ {exclude_url} :
        /\ rows[u] # NoDoc
        /\ rows[u].file_hash = file_hash
        /\ rows[u].local_path # NoPath}
\* order_by(created_at.asc()).first(), then os.path.exists of its local_path
_resolve_global_dedupe_path(rows, files, file_hash, exclude_url) ==
    LET found == DedupeCandidates(rows, file_hash, exclude_url)
    IN  IF found = {} THEN NoPath
        ELSE LET first == CHOOSE u \in found :
                            \A v \in found : rows[u].created_at <= rows[v].created_at
             IN  IF Exists(files, rows[first].local_path)
                 THEN rows[first].local_path ELSE NoPath

RowCount(rows) == Cardinality({u \in Urls : rows[u] # NoDoc})

\* _process_one(db, url, state) for a URL of the company, with the files
_process_one_on_disk(budget) ==
    /\ fetch.calls < budget
    /\ \E url \in Urls, c \in Companies, head \in DiskHeadResponses,
          payload \in Payloads \cup {NoPayload}, move_ok \in BOOLEAN :
        LET etag == head.etag
            last_mod == head.last_mod
            existing == registry[url] # NoDoc
            returned(status, error_type, path, deduped, got) ==
                [calls |-> fetch.calls + 1, url |-> url, payload |-> got,
                 status |-> status, error_type |-> error_type,
                 local_path |-> path, deduplicated |-> deduped]
            download_outcome == _download(disk, url, payload, move_ok)
            new_hash == payload.sha256
            dedupe_target == _resolve_global_dedupe_path(
                                registry, download_outcome.files, new_hash,
                                IF existing THEN url ELSE "")
            deduped == dedupe_target # NoPath /\ dedupe_target # download_outcome.path
            file_path == IF deduped THEN dedupe_target ELSE download_outcome.path
            files == IF deduped
                     THEN _safe_remove(download_outcome.files, download_outcome.path)
                     ELSE download_outcome.files
        IN  IF /\ existing
               /\ etag # NoneV
               /\ registry[url].etag = etag
               /\ registry[url].last_modified_header = last_mod
            THEN
                /\ registry' = [registry EXCEPT ![url].status = "UNCHANGED"]
                /\ retries' = _resolve_retry_entry(retries, c, url)
                /\ fetch' = returned("UNCHANGED", "", NoPath, FALSE, NoPayload)
                /\ UNCHANGED <<change_log, error_log, disk>>
            ELSE IF ~download_outcome.ok THEN
                /\ error_log' = log_failure(error_log, retries, c, url,
                                            download_outcome.error_type)
                /\ retries' = _upsert_retry_entry(retries, c, url, dnow)
                /\ disk' = download_outcome.files
                /\ IF existing
                   THEN registry' = [registry EXCEPT ![url].status = "FAILED"]
                   ELSE UNCHANGED registry
                /\ fetch' = returned(IF existing THEN "FAILED" ELSE "none",
                                     download_outcome.error_type, NoPath, FALSE, payload)
                /\ UNCHANGED change_log
            ELSE IF existing THEN
                /\ IF new_hash = registry[url].file_hash
                   THEN /\ registry' = [registry EXCEPT ![url].status = "UNCHANGED",
                                                        ![url].etag = etag,
                                                        ![url].last_modified_header = last_mod]
                        /\ disk' = IF deduped THEN files ELSE _safe_remove(files, file_path)
                        /\ UNCHANGED change_log
                   ELSE /\ change_log' = _record_change(change_log, url, "UPDATED")
                        /\ registry' = [registry EXCEPT ![url].status = "UPDATED",
                                                        ![url].file_hash = new_hash,
                                                        ![url].local_path = file_path,
                                                        ![url].etag = etag,
                                                        ![url].last_modified_header = last_mod]
                        /\ disk' = files
                /\ retries' = _resolve_retry_entry(retries, c, url)
                /\ fetch' = returned(registry'[url].status, "",
                                     registry'[url].local_path, deduped, payload)
                /\ UNCHANGED error_log
            ELSE
                /\ registry' = [registry EXCEPT ![url] =
                                    [status |-> "NEW", company_id |-> c, file_hash |-> new_hash,
                                     etag |-> etag, last_modified_header |-> last_mod,
                                     local_path |-> file_path,
                                     created_at |-> RowCount(registry) + 1]]
                /\ change_log' = _record_change(change_log, url, "NEW")
                /\ retries' = _resolve_retry_entry(retries, c, url)
                /\ disk' = files
                /\ fetch' = returned("NEW", "", file_path, deduped, payload)
                /\ UNCHANGED error_log
    /\ UNCHANGED <<site, dl, dnow, digest, jobVars, wwVars, auxVars>>

\* somebody removes a stored file from the download folder
file_removed(limit) ==
    /\ \E f \in disk :
        /\ f.path.folder = "final"
        /\ Cardinality({u \in Urls : registry[u] # NoDoc}) - Cardinality(
              {u \in Urls : registry[u] # NoDoc /\ Exists(disk, registry[u].local_path)}) < limit
        /\ disk' = disk \ {f}
    /\ UNCHANGED <<site, registry, retries, change_log, error_log, dl, dnow, digest,
                   fetch, jobVars, wwVars, auxVars>>

\* PATCH /documents/retries/{retry_id}
update_ingestion_retry ==
    /\ dl.patched < MaxPatches
    /\ dl' = [dl EXCEPT !.patched = dl.patched + 1]
    /\ \E retry_id \in 1..Len(retries), next_status \in RetryStatuses, delay \in PatchDelays :
        retries' = [retries EXCEPT ![retry_id].status = next_status,
                                   ![retry_id].next_retry_at =
                                        IF next_status = "PENDING"
                                        THEN dnow + Max(0, Min(delay, 24 * 60))
                                        ELSE NoTime]
    /\ UNCHANGED <<site, registry, change_log, error_log, dnow, digest, disk, fetch, jobVars, wwVars, auxVars>>

DownloadClock ==
    /\ dnow < MaxDlTicks * ClockStep
    /\ dnow' = dnow + ClockStep
    /\ UNCHANGED <<site, registry, retries, change_log, error_log, dl, digest, disk, fetch, jobVars, wwVars, auxVars>>

(***************************************************************************)
(* WebWatch subsystem: app/agents/webwatch_agent.py                        *)
(***************************************************************************)
MaxPasses == 3          \* WebWatch passes

MaxFetches == 3         \* calls of _process_one that work on the disk
MaxMissing == 1         \* documents whose stored file is gone
MaxDigestProcessed == 2 \* loop iterations of download_agent next to the digest
MaxRacePasses == 2      \* WebWatch passes of the two sessions together
PageList == <<"base", "p1">>
BaseUrl == PageList[1]              \* state["website_url"]
WebPages == {PageList[k] : k \in 1..Len(PageList)}
PagesOf(S) == SelectSeq(PageList, LAMBDA p : p \in S)
PageHashes == {"t1", "t2"}          \* sha256_text of the page text
PdfLinkSets == {{}, {"d1"}}         \* pdf_on_page
NoSnap == 0                         \* db_snapshots.get(page_url) is None

\* what _discover_pages can return: the base URL and the pages reached from it
DiscoveredSets == {{BaseUrl} \cup S : S \in SUBSET (WebPages \ {BaseUrl})}

_save_change(changes, company_id, page_url, change_type) ==
    Append(changes, [company_id |-> company_id, page_url |-> page_url,
                     change_type |-> change_type])

SnapIds(snaps, company_id, page_url) ==
    {i \in 1..Len(snaps) :
        snaps[i].company_id = company_id /\ snaps[i].page_url = page_url}

\* variant of db_snapshot: inactive rows are not loaded
ActiveSnapshotOnly(snaps, company_id, page_url) ==
    LET ids == {i \in SnapIds(snaps, company_id, page_url) : snaps[i].is_active}
    IN  IF ids = {} THEN NoSnap ELSE Highest(ids)

\* db_snapshots[page_url]: the dict keeps the last row the query returned
\* for a page_url
db_snapshot(snaps, company_id, page_url) ==
    LET ids == SnapIds(snaps, company_id, page_url)
    IN  IF ids = {} THEN NoSnap ELSE Highest(ids)

\* known_urls of the pass
known_urls(snaps, company_id) ==
    {p \in WebPages : db_snapshot(snaps, company_id, p) # NoSnap}

\* the loop over deleted: the session's snapshots, its page_changes and
\* detected_changes after the pages of todo have been looked at
RECURSIVE mark_deleted(_, _, _)
mark_deleted(session, company_id, todo) ==
    IF todo = <<>> THEN session
    ELSE LET url == Head(todo)
             id == db_snapshot(session.snaps, company_id, url)
             next ==
                IF session.snaps[id].is_active
                THEN [snaps |-> [session.snaps EXCEPT ![id].is_active = FALSE],
                      changes |-> _save_change(session.changes, company_id, url, "PAGE_DELETED"),
                      detected_changes |-> Append(session.detected_changes,
                            [change_type |-> "PAGE_DELETED", page_url |-> url])]
                ELSE session
         IN  mark_deleted(next, company_id, Tail(todo))

\* one iteration of the page loop whose fetch succeeded, up to db.commit()
process_page(session, company_id, page_url, page_hash, pdf_on_page) ==
    LET id == db_snapshot(session.snaps, company_id, page_url)
    IN  IF id = NoSnap
        THEN [snaps |-> Append(session.snaps,
                    [company_id |-> company_id, page_url |-> page_url,
                     content_hash |-> page_hash, pdf_urls_found |-> pdf_on_page,
                     is_active |-> TRUE]),
              changes |-> _save_change(session.changes, company_id, page_url, "PAGE_ADDED"),
              detected_changes |-> Append(session.detected_changes,
                    [change_type |-> "PAGE_ADDED", page_url |-> page_url])]
        ELSE LET existing == session.snaps[id]
                 content_changed == existing.content_hash # page_hash
                 new_pdfs == pdf_on_page \ existing.pdf_urls_found
                 changes1 == IF content_changed
                             THEN _save_change(session.changes, company_id, page_url, "CONTENT_CHANGED")
                             ELSE session.changes
                 detected1 == IF content_changed
                              THEN Append(session.detected_changes,
                                    [change_type |-> "CONTENT_CHANGED", page_url |-> page_url])
                              ELSE session.detected_changes
                 changes2 == IF new_pdfs # {}
                             THEN _save_change(changes1, company_id, page_url, "NEW_DOC_LINKED")
                             ELSE changes1
                 detected2 == IF new_pdfs # {}
                              THEN Append(detected1,
                                    [change_type |-> "NEW_DOC_LINKED", page_url |-> page_url])
                              ELSE detected1
             IN  [snaps |-> [session.snaps EXCEPT
                        ![id].is_active = TRUE,
                        ![id].content_hash = page_hash,
                        ![id].pdf_urls_found =
                            IF new_pdfs # {} THEN pdf_on_page ELSE existing.pdf_urls_found],
                  changes |-> changes2,
                  detected_changes |-> detected2]

\* the sessions that can run a WebWatch pass: the webwatch stage of a
\* pipeline run, and the WebWatch task (run_hourly_webwatch, webwatch-direct)
WwSessions == {"pipeline", "webwatch"}
MainSession == "pipeline"
pass_trigger(s) == IF s = "pipeline" THEN "PIPELINE" ELSE "WEBWATCH"
\* trigger types that the launch of the session's run looks for in
\* ensure_no_overlap
guard_types(s) ==
    IF s = "pipeline" THEN {"PIPELINE", "PIPELINE_ALL"} ELSE {"WEBWATCH"}

\* no WebWatch pass in progress. all_pages and known_active are those of the
\* last pass, first_change the length of page_changes when it began. While
\* the session has not committed (fresh is false) loaded is the snapshots as
\* the query returned them, snaps the same objects with the session's
\* uncommitted writes; changes are its uncommitted PageChange rows. After a
\* commit its objects are expired and read again from the first known rows
\* of the table
IdleWw ==
    [pc |-> "idle", passes |-> 0, company_id |-> NoCompany, all_pages |-> {},
     known_active |-> {}, first_change |-> 0, todo |-> <<>>,
     snaps |-> <<>>, loaded |-> <<>>, known |-> 0, fresh |-> FALSE,
     changes |-> <<>>, detected_changes |-> <<>>]

\* passes begun so far, over all the sessions
PassesBegun == ww["pipeline"].passes + ww["webwatch"].passes

\* the flush of a commit: UPDATE of the attributes the session changed on
\* the rows it loaded, INSERT of the rows it added
commit_rows(table, base, view) ==
    [i \in 1..Len(table) |->
        IF i <= Len(base)
        THEN [a \in DOMAIN table[i] |->
                IF view[i][a] # base[i][a] THEN view[i][a] ELSE table[i][a]]
        ELSE table[i]]
    \o SubSeq(view, Len(base) + 1, Len(view))

\* webwatch_agent up to the page loop: discovery, the snapshots of the
\* company, the deleted pages. The launch guards let the pass begin unless a
\* run of one of the guarded trigger types is in progress
webwatch_agent_begin(s, budget) ==
    /\ ww[s].pc \in {"idle", "returned"}
    /\ PassesBegun < budget
    /\ ~\E u \in WwSessions \ {s} :
            ww[u].pc = "pages" /\ pass_trigger(u) \in guard_types(s)
    /\ \E c \in Companies, live_urls \in DiscoveredSets :
        LET known == known_urls(snapshots, c)
            session == mark_deleted(
                [snaps |-> snapshots, changes |-> <<>>, detected_changes |-> <<>>],
                c, PagesOf(known \ live_urls))
        IN  ww' = [ww EXCEPT ![s] =
                  [pc |-> "pages", passes |-> ww[s].passes + 1, company_id |-> c,
                   all_pages |-> live_urls,
                   known_active |-> {p \in known :
                        snapshots[db_snapshot(snapshots, c, p)].is_active},
                   first_change |-> Len(page_changes),
                   todo |-> PagesOf(live_urls),
                   snaps |-> session.snaps, loaded |-> snapshots,
                   known |-> Len(snapshots), fresh |-> FALSE,
                   changes |-> session.changes,
                   detected_changes |-> session.detected_changes]]
    /\ UNCHANGED <<snapshots, page_changes, jobVars, dlVars, auxVars>>

\* one iteration of the page loop: httpx.get raises and the page is skipped,
\* or the page is processed and the session committed
webwatch_page(s) ==
    /\ ww[s].pc = "pages"
    /\ ww[s].todo # <<>>
    /\ \E ok \in BOOLEAN, page_hash \in PageHashes, pdf_on_page \in PdfLinkSets :
        IF ok
        THEN LET base == IF ww[s].fresh THEN SubSeq(snapshots, 1, ww[s].known)
                         ELSE ww[s].loaded
                 view == IF ww[s].fresh THEN base ELSE ww[s].snaps
                 session == process_page(
                    [snaps |-> view, changes |-> ww[s].changes,
                     detected_changes |-> ww[s].detected_changes],
                    ww[s].company_id, Head(ww[s].todo), page_hash, pdf_on_page)
             IN  /\ ww' = [ww EXCEPT ![s].todo = Tail(ww[s].todo),
                                     ![s].snaps = <<>>,
                                     ![s].loaded = <<>>,
                                     ![s].fresh = TRUE,
                                     ![s].changes = <<>>,
                                     ![s].detected_changes = session.detected_changes]
                 /\ snapshots' = commit_rows(snapshots, base, session.snaps)
                 /\ page_changes' = page_changes \o session.changes
        ELSE /\ ww' = [ww EXCEPT ![s].todo = Tail(ww[s].todo)]
             /\ UNCHANGED <<snapshots, page_changes>>
    /\ UNCHANGED <<jobVars, dlVars, auxVars>>

\* the loop is over: db.close() drops what the session has not committed,
\* the agent returns detected_changes as page_changes
webwatch_agent_return(s) ==
    /\ ww[s].pc = "pages"
    /\ ww[s].todo = <<>>
    /\ ww' = [ww EXCEPT ![s].pc = "returned", ![s].snaps = <<>>,
                        ![s].loaded = <<>>, ![s].changes = <<>>]
    /\ UNCHANGED <<snapshots, page_changes, jobVars, dlVars, auxVars>>

(***************************************************************************)
(* STAGES AFTER THE DOWNLOAD: classify_agent.py, parse_agent.py,           *)
(* extract_agent.py, document by document                                  *)
(***************************************************************************)
MaxDocs == 2
DocIds == 1..MaxDocs
\* doc_id of a doc_info: 0 for an entry without doc_id (a failed download),
\* MaxDocs + 1 for an id whose row is gone
DocInfoIds == 0..(MaxDocs + 1)
DocStatuses == {"NEW", "UPDATED", "UNCHANGED", "FAILED"}
\* what the URL, the file name and the first page of a document say
Signals == {"annual report", "quarterly result", ""}
LlmAttempts == 3
\* one call of _call_azure: a parsed answer, an empty answer, an exception
CallOutcomes == {"result", "empty", "raises"}
NoAttempts == [a \in 1..LlmAttempts |-> "none"]

Unclassified == [category |-> "", type |-> "Unknown"]
\* where _download has put the file of the document
DownloadedPath(d) == [folder |-> "Other", name |-> d, version |-> 1]
NoRecord == [present |-> FALSE, document_type |-> "", from_llm |-> FALSE]
IdleStage ==
    [node |-> "classify", downloaded_docs |-> <<>>, todo |-> <<>>,
     extracted_count |-> 0, doc_id |-> 0, attempts |-> NoAttempts]

\* the rule with the best score; no keyword found: NON_FINANCIAL, OTHER
_classify(signals) ==
    IF signals = "annual report"
    THEN [category |-> "FINANCIAL", type |-> "ANNUAL_REPORT"]
    ELSE IF signals = "quarterly result"
    THEN [category |-> "FINANCIAL", type |-> "QUARTERLY_RESULTS"]
    ELSE [category |-> "NON_FINANCIAL", type |-> "OTHER"]

\* file_organizer.target_subfolder of the field "CATEGORY|TYPE"
target_subfolder(doc_type_field) ==
    IF doc_type_field.type \in {"QUARTERLY_RESULTS", "HALF_YEAR_RESULTS"}
    THEN "QuarterlyReports"
    ELSE IF doc_type_field.type = "ANNUAL_REPORT" THEN "AnnualReports"
    ELSE IF doc_type_field.category = "FINANCIAL" THEN "FinancialStatements"
    ELSE IF doc_type_field.category = "NON_FINANCIAL" THEN "NonFinancial"
    ELSE "Other"

\* one iteration of the loop of classify_agent: entries without doc_id or
\* without row are passed over; the row gets the field CATEGORY|TYPE and the
\* session commits
classify_document ==
    /\ stage.node = "classify"
    /\ stage.todo # <<>>
    /\ LET doc_info == Head(stage.todo)
           doc_id == doc_info.doc_id
       IN  /\ stage' = [stage EXCEPT !.todo = Tail(stage.todo), !.doc_id = doc_id]
           /\ doc_rows' =
                IF doc_id \in DocIds
                THEN [doc_rows EXCEPT ![doc_id].doc_type = _classify(doc_rows[doc_id].signals)]
                ELSE doc_rows
    /\ UNCHANGED <<metadata_records, doc_files, jobVars, dlVars, wwVars, apiVars, dbVars, poll, callers, netVars>>

\* classify_agent returns downloaded_docs; parse_agent reads the file of
\* every entry that is not UNCHANGED, has a local_path (the NEW and the
\* UPDATED ones do, the FAILED ones do not) and a row, and puts
\* the text (which may be empty) into the entry
parse_agent_documents ==
    /\ stage.node = "classify"
    /\ stage.todo = <<>>
    /\ \E has_text \in [1..Len(stage.downloaded_docs) -> BOOLEAN] :
        LET parsed == [k \in 1..Len(stage.downloaded_docs) |->
                [stage.downloaded_docs[k] EXCEPT !.full_text =
                    /\ stage.downloaded_docs[k].status \in {"NEW", "UPDATED"}
                    /\ stage.downloaded_docs[k].doc_id \in DocIds
                    /\ has_text[k]]]
        IN  stage' = [stage EXCEPT !.node = "extract", !.downloaded_docs = parsed,
                                   !.todo = parsed, !.doc_id = 0]
    /\ UNCHANGED <<doc_rows, metadata_records, doc_files, jobVars, dlVars, wwVars, apiVars, dbVars, poll, callers, netVars>>

\* the three attempts of _extract_with_llm: the first answer that is not
\* empty is returned, exceptions are caught; TRUE for a result, FALSE for None
_extract_with_llm(attempts) == \E a \in 1..LlmAttempts : attempts[a] = "result"

\* the fields the answer of the LLM lacks are filled from the row
_merge_fallback_metadata(doc, llm_result) ==
    [present |-> TRUE,
     document_type |-> IF llm_result THEN "LLM" ELSE doc.doc_type.type,
     from_llm |-> llm_result]

\* one iteration of the loop of extract_agent: entries without doc_id,
\* without text or without row are passed over; for the others the record
\* is created or updated and the row is flagged, whatever the LLM returned
extract_document ==
    /\ stage.node = "extract"
    /\ stage.todo # <<>>
    /\ LET doc_info == Head(stage.todo)
           doc_id == doc_info.doc_id
       IN  IF doc_id \notin DocIds \/ ~doc_info.full_text
           THEN /\ stage' = [stage EXCEPT !.todo = Tail(stage.todo), !.doc_id = 0,
                                          !.attempts = NoAttempts]
                /\ UNCHANGED <<doc_rows, metadata_records>>
           ELSE \E attempts \in [1..LlmAttempts -> CallOutcomes] :
                /\ stage' = [stage EXCEPT !.todo = Tail(stage.todo), !.doc_id = doc_id,
                                          !.attempts = attempts,
                                          !.extracted_count = stage.extracted_count + 1]
                /\ metadata_records' = [metadata_records EXCEPT ![doc_id] =
                        _merge_fallback_metadata(doc_rows[doc_id], _extract_with_llm(attempts))]
                /\ doc_rows' = [doc_rows EXCEPT ![doc_id].metadata_extracted = TRUE]
    /\ UNCHANGED <<doc_files, jobVars, dlVars, wwVars, apiVars, dbVars, poll, callers, netVars>>

extract_agent_return ==
    /\ stage.node = "extract"
    /\ stage.todo = <<>>
    /\ stage' = [stage EXCEPT !.node = "end", !.doc_id = 0, !.attempts = NoAttempts]
    /\ UNCHANGED <<doc_rows, metadata_records, doc_files, jobVars, dlVars, wwVars, apiVars, dbVars, poll, callers, netVars>>

(***************************************************************************)
(* DASHBOARD: frontend/api_client.py, the calls of one browser session     *)
(***************************************************************************)
Methods == {"GET", "POST", "PATCH", "DELETE"}
ApiPaths == {"/companies/", "/documents/"}
\* how the request ends: requests raises on every attempt, the backend
\* answers with an error status, with a JSON body, or with no body (204)
ResponseKinds == {"exception", "error_status", "ok_json", "ok_empty"}
DEFAULT_CACHE_TTL_SEC == 20
ClockStepSec == 10
MaxApiTime == 40
MaxCalls == 4

NoItem == [value |-> -1, ts |-> -1]
EmptyCache == [key \in ApiPaths |-> NoItem]
NoCall == [method |-> "none", path |-> "", from_cache |-> FALSE,
           kind |-> "none", value |-> -1]

\* _cache_get: the item of the key if it is not older than the ttl; an older
\* item is dropped
_cache_get(store, key, time) ==
    IF store[key] = NoItem
    THEN [store |-> store, hit |-> FALSE, value |-> -1]
    ELSE IF time - store[key].ts > DEFAULT_CACHE_TTL_SEC
    THEN [store |-> [store EXCEPT ![key] = NoItem], hit |-> FALSE, value |-> -1]
    ELSE [store |-> store, hit |-> TRUE, value |-> store[key].value]

_cache_set(store, key, value, time) ==
    [store EXCEPT ![key] = [value |-> value, ts |-> time]]

\* whether the call drops st.session_state["_api_cache"]: DELETE on a
\* status below 300, POST and PATCH only when the answer has a JSON body
pops_api_cache(method, kind) ==
    \/ method = "DELETE" /\ kind \in {"ok_json", "ok_empty"}
    \/ method \in {"POST", "PATCH"} /\ kind = "ok_json"

\* what api returns: the JSON, True, False (DELETE) or None
api_return(method, kind, data) ==
    IF method = "DELETE"
    THEN IF kind = "exception" THEN [kind |-> "None", value |-> -1]
         ELSE IF kind = "error_status" THEN [kind |-> "False", value |-> -1]
         ELSE [kind |-> "True", value |-> -1]
    ELSE IF kind \in {"exception", "error_status"} THEN [kind |-> "None", value |-> -1]
    ELSE IF kind = "ok_empty" THEN [kind |-> "True", value |-> -1]
    ELSE [kind |-> "json", value |-> data]

\* One call of api(method, path). ui.data is the version of the backend's
\* data, which every write the backend applies advances: it applies the
\* writes it answers with success, and may have applied one whose answer
\* was lost. ui.stale holds the keys cached before the latest write call.
api(method, path) ==
    /\ ui.calls < MaxCalls
    /\ \E kind \in ResponseKinds, applied \in BOOLEAN :
        LET looked == IF method = "GET" THEN _cache_get(api_cache, path, ui.time)
                      ELSE [store |-> api_cache, hit |-> FALSE, value |-> -1]
        IN  IF looked.hit
            THEN /\ api_cache' = looked.store
                 /\ ui' = [ui EXCEPT !.calls = ui.calls + 1,
                                     !.last = [method |-> method, path |-> path,
                                               from_cache |-> TRUE, kind |-> "json",
                                               value |-> looked.value]]
            ELSE LET written == /\ method # "GET"
                                /\ \/ kind \in {"ok_json", "ok_empty"}
                                   \/ kind = "exception" /\ applied
                     data == IF written THEN ui.data + 1 ELSE ui.data
                     store == IF pops_api_cache(method, kind) THEN EmptyCache
                              ELSE IF method = "GET" /\ kind = "ok_json"
                              THEN _cache_set(looked.store, path, data, ui.time)
                              ELSE looked.store
                     returned == api_return(method, kind, data)
                 IN  /\ api_cache' = store
                     /\ ui' = [ui EXCEPT
                            !.calls = ui.calls + 1,
                            !.data = data,
                            !.stale = IF method = "GET" THEN ui.stale \ {path}
                                      ELSE {key \in ApiPaths : store[key] # NoItem},
                            !.last = [method |-> method, path |-> path,
                                      from_cache |-> FALSE, kind |-> returned.kind,
                                      value |-> returned.value]]
    /\ UNCHANGED <<jobVars, dlVars, wwVars, exVars, dbVars, poll, callers, netVars>>

DashboardClock ==
    /\ ui.time + ClockStepSec <= MaxApiTime
    /\ ui' = [ui EXCEPT !.time = ui.time + ClockStepSec]
    /\ UNCHANGED <<api_cache, jobVars, dlVars, wwVars, exVars, dbVars, poll, callers, netVars>>

(***************************************************************************)
(* SCHEMA: alembic_migrations/versions/20260220_0001_bootstrap_schema.py,  *)
(* app/schema_compat.py, app/models.py                                     *)
(***************************************************************************)
JobRunColumns == {"duration_ms", "items_processed", "error_count"}
ClassifierColumns == {"classifier_confidence", "classifier_version", "needs_review"}
SourceColumns ==
    {"source_type", "source_domain", "discovery_strategy", "first_seen_at", "last_seen_at"}
\* Base.metadata.tables: the tables models.py declares, with the columns
\* this model follows ("id" stands for the columns every version has)
OrmTables == {"companies", "document_registry", "job_runs"}
OrmColumns(table) ==
    IF table = "job_runs" THEN {"id"} \cup JobRunColumns
    ELSE IF table = "document_registry" THEN {"id"} \cup ClassifierColumns
    ELSE {"id"}
\* the tables a database may hold; a table that does not exist has no column
DbTables == OrmTables \cup {"crawl_diagnostics", "ingestion_retries"}
KnownColumns(table) ==
    IF table = "job_runs" THEN JobRunColumns
    ELSE IF table = "document_registry" THEN ClassifierColumns \cup SourceColumns
    ELSE {}
_table_names(db) == {t \in DbTables : db[t] # {}}

\* op.add_column / ALTER TABLE ADD COLUMN for every column of the set that
\* the table lacks; the table is left alone when it does not exist
AddMissingColumns(db, table, columns) ==
    IF table \in _table_names(db)
    THEN [db EXCEPT ![table] = db[table] \cup columns]
    ELSE db

_ensure_tables(db) ==
    [t \in DbTables |-> IF t \in OrmTables /\ t \notin _table_names(db)
                        THEN OrmColumns(t) ELSE db[t]]
_ensure_job_run_columns(db) == AddMissingColumns(db, "job_runs", JobRunColumns)
_ensure_document_registry_columns(db) ==
    AddMissingColumns(db, "document_registry", ClassifierColumns)

upgrade_schema(db) ==
    _ensure_document_registry_columns(_ensure_job_run_columns(_ensure_tables(db)))

\* ensure_runtime_schema_compatibility: the tables are listed once, at the
\* start; crawl_diagnostics and ingestion_retries are created only if
\* models.py declares them
patched_schema(db) ==
    LET tables == _table_names(db)
        with_job_runs == AddMissingColumns(db, "job_runs", JobRunColumns)
        with_tables == [t \in DbTables |->
            IF /\ t \in {"crawl_diagnostics", "ingestion_retries"}
               /\ t \notin tables
               /\ t \in OrmTables
            THEN OrmColumns(t) ELSE with_job_runs[t]]
    IN  IF "document_registry" \in tables
        THEN AddMissingColumns(with_tables, "document_registry",
                               ClassifierColumns \cup SourceColumns)
        ELSE with_tables

MaxUpgrades == 2
MaxPatcherRuns == 2

\* upgrade() of the bootstrap revision, run on the database as it is
upgrade ==
    /\ migration.upgrades < MaxUpgrades
    /\ schema' = upgrade_schema(schema)
    /\ migration' = [migration EXCEPT !.upgrades = migration.upgrades + 1,
                                      !.last = "upgrade"]
    /\ UNCHANGED <<jobVars, dlVars, wwVars, exVars, apiVars, poll, callers, netVars>>

ensure_runtime_schema_compatibility ==
    /\ migration.patches < MaxPatcherRuns
    /\ schema' = patched_schema(schema)
    /\ migration' = [migration EXCEPT !.patches = migration.patches + 1,
                                      !.last = "patcher"]
    /\ UNCHANGED <<jobVars, dlVars, wwVars, exVars, apiVars, poll, callers, netVars>>

(***************************************************************************)
(* HTTP: utils/http_client.py and download_agent._download, one call of    *)
(* each, attempt by attempt                                                *)
(***************************************************************************)
RETRYABLE_STATUSES == {408, 429, 500, 502, 503, 504}
BLOCK_STATUS_CODES == {401, 403, 429, 503}
\* the status codes the servers of the model answer with
StatusCodes == {200, 403, 404, 429, 500, 503}
\* what a request ends with: a response, with its status code and whether
\* its body holds one of BLOCK_PATTERNS, an exception of the network level
\* (timeout, connect, read, write) or another exception of httpx
Answers ==
    [kind : {"response"}, status_code : StatusCodes, block_pattern : BOOLEAN]
    \cup [kind : {"network_error", "other_error"}, status_code : {0}, block_pattern : {FALSE}]

is_blocked_response(response) ==
    \/ response.status_code \in BLOCK_STATUS_CODES
    \/ response.block_pattern

\* ---- download_agent._download ----
DownloadAttempts == 3               \* attempts = 3
\* what the body of a response that passed the status checks leads to
BodyOutcomes == {"ok", "INVALID_CONTENT_TYPE", "FILE_TOO_LARGE",
                 "INVALID_PDF_SIGNATURE", "raises"}
\* no call yet; responses are the answers of the GET requests of the call,
\* in order
IdleGet == [pc |-> "idle", attempt |-> 0, responses |-> <<>>, error_type |-> ""]

\* the first test on a response: sleep and continue
retried_status(response, attempt) ==
    /\ response.status_code \in RETRYABLE_STATUSES
    /\ attempt < DownloadAttempts - 1

\* _download is called
_download_call ==
    /\ get.pc = "idle"
    /\ get' = [IdleGet EXCEPT !.pc = "attempt"]
    /\ UNCHANGED <<jobVars, dlVars, wwVars, exVars, apiVars, dbVars, poll, callers, http, domain_control, stream>>

\* one iteration of the loop of _download: the GET request and what follows
\* from its answer
_download_attempt ==
    /\ get.pc = "attempt"
    /\ \E answer \in Answers, body \in BodyOutcomes :
        LET seen == Append(get.responses, answer)
            return(error_type) ==
                [get EXCEPT !.pc = "returned", !.responses = seen,
                            !.error_type = error_type]
            continue == [get EXCEPT !.attempt = get.attempt + 1, !.responses = seen]
            \* except Exception
            caught == IF get.attempt >= DownloadAttempts - 1
                      THEN return("DOWNLOAD_FAILED") ELSE continue
        IN  get' =
                IF answer.kind # "response" THEN caught
                ELSE IF retried_status(answer, get.attempt) THEN continue
                ELSE IF is_blocked_response(answer) THEN return("DOWNLOAD_BLOCKED")
                \* response.raise_for_status()
                ELSE IF answer.status_code >= 400 THEN caught
                ELSE IF body = "raises" THEN caught
                ELSE return(body)
    /\ UNCHANGED <<jobVars, dlVars, wwVars, exVars, apiVars, dbVars, poll, callers, http, domain_control, stream>>

\* ---- http_client.request_with_retries ----
RetryCounts == 0..3                 \* the retries argument (default 3)
IdleHttp == [pc |-> "idle", retries |-> 0, attempt |-> 0, requests |-> 0,
             answers |-> <<>>, raised |-> ""]

\* variant of returns_response: a retryable status is never returned
ReturnsUnlessRetryable(response, attempt, attempts) ==
    response.status_code \notin RETRYABLE_STATUSES
\* the response is returned unless its status is retryable and an attempt
\* is left
returns_response(response, attempt, attempts) ==
    ~(response.status_code \in RETRYABLE_STATUSES /\ attempt < attempts - 1)

\* request_with_retries is called; with no attempt to make the loop is
\* skipped and the RuntimeError after it raised
request_with_retries_call ==
    /\ http.pc = "idle"
    /\ \E attempts \in RetryCounts :
        http' = IF attempts = 0
                THEN [IdleHttp EXCEPT !.pc = "raised", !.raised = "RuntimeError"]
                ELSE [IdleHttp EXCEPT !.pc = "attempt", !.retries = attempts]
    /\ UNCHANGED <<jobVars, dlVars, wwVars, exVars, apiVars, dbVars, poll, callers, get, domain_control, stream>>

\* one iteration of the loop of request_with_retries
request_with_retries ==
    /\ http.pc = "attempt"
    /\ \E answer \in Answers :
        LET sent == [http EXCEPT !.requests = http.requests + 1,
                                 !.answers = Append(http.answers, answer)]
        IN  http' =
                IF answer.kind = "other_error"
                THEN [sent EXCEPT !.pc = "raised", !.raised = "other_error"]
                ELSE IF answer.kind = "network_error"
                THEN IF http.attempt >= http.retries - 1
                     THEN [sent EXCEPT !.pc = "raised", !.raised = "network_error"]
                     ELSE [sent EXCEPT !.attempt = http.attempt + 1]
                ELSE IF returns_response(answer, http.attempt, http.retries)
                THEN [sent EXCEPT !.pc = "returned"]
                ELSE [sent EXCEPT !.attempt = http.attempt + 1]
    /\ UNCHANGED <<jobVars, dlVars, wwVars, exVars, apiVars, dbVars, poll, callers, get, domain_control, stream>>

(***************************************************************************)
(* Domain crawl control: utils/crawl_control.py, the guarded request of    *)
(* crawl_agent.py and the operator's endpoints of api/crawl.py.  One crawl *)
(* sends guarded requests; a second thread calls wait_turn on its own.     *)
(***************************************************************************)
Domains == {"a.test", "b.test"}
CrawlThreads == {"crawl", "other"}
CrawlEpoch == 3         \* time.time() when the first call is made
MaxCrawlTime == 7       \* the clock of the crawl stops here
MaxDiagnostics == 2     \* guarded requests of the crawl
\* min_delay_seconds of a call, and settings.crawl_domain_delay_seconds
Delays == {0, 2}
\* settings.crawl_block_cooldown_seconds
Cooldowns == {0, 3}
\* what request_with_retries ends with inside a guarded request
CrawlAnswers ==
    {a \in Answers : /\ a.status_code \in {0, 200, 403}
                     /\ a.kind # "other_error"
                     /\ a.block_pattern => a.status_code = 200}

IdleThread == [pc |-> "idle", op |-> "", domain |-> "", min_delay |-> 0, wake |-> 0]
\* DomainControl(): both dictionaries empty, read with the default 0.0
ControlStart(delay, cooldown) ==
    [time |-> CrawlEpoch,
     crawl_domain_delay_seconds |-> delay,
     crawl_block_cooldown_seconds |-> cooldown,
     last_request_at |-> [d \in Domains |-> 0],
     blocked_until |-> [d \in Domains |-> 0],
     thread |-> [t \in CrawlThreads |-> IdleThread],
     diagnostics |-> <<>>,
     returned |-> ""]

\* variant of is_blocked: no domain is ever under cooldown
NeverBlocked(control, domain) == FALSE
is_blocked(control, domain) == control.time < control.blocked_until[domain]

mark_blocked(control, domain, cooldown_seconds) ==
    IF cooldown_seconds <= 0 THEN control
    ELSE [control EXCEPT !.blocked_until[domain] =
                            Max(@, control.time + cooldown_seconds)]
unblock(control, domain) == [control EXCEPT !.blocked_until[domain] = 0]
clear(control) ==
    [control EXCEPT !.last_request_at = [d \in Domains |-> 0],
                    !.blocked_until = [d \in Domains |-> 0]]

_record_diag(control, domain, status_code, blocked, error) ==
    [control EXCEPT !.diagnostics =
        Append(@, [domain |-> domain, status_code |-> status_code,
                   blocked |-> blocked, error |-> error])]

\* where a thread goes on when wait_turn has returned
AfterTurn(op) == IF op = "_guarded_request" THEN "request" ELSE "idle"
\* the first block of wait_turn under the lock: the time the thread sleeps
\* until, now when sleep_for is not positive
SleepsUntil(control, domain, min_delay_seconds) ==
    Max(control.time, control.last_request_at[domain] + min_delay_seconds)
\* the thread t enters wait_turn
wait_turn_enter(control, t, op, domain, min_delay_seconds) ==
    IF min_delay_seconds <= 0
    THEN [control EXCEPT !.thread[t] =
            [IdleThread EXCEPT !.pc = AfterTurn(op), !.op = op, !.domain = domain]]
    ELSE [control EXCEPT !.thread[t] =
            [pc |-> "sleep", op |-> op, domain |-> domain,
             min_delay |-> min_delay_seconds,
             wake |-> SleepsUntil(control, domain, min_delay_seconds)]]

\* a thread calls wait_turn
wait_turn_call ==
    /\ domain_control.thread["other"].pc = "idle"
    /\ \E domain \in Domains, min_delay_seconds \in Delays :
        domain_control' = wait_turn_enter(domain_control, "other", "wait_turn",
                                          domain, min_delay_seconds)
    /\ UNCHANGED <<jobVars, dlVars, wwVars, exVars, apiVars, dbVars, poll, callers, get, http, stream>>

\* the sleep of wait_turn is over: the second block under the lock records
\* the time, and wait_turn returns
wait_turn ==
    /\ \E t \in CrawlThreads :
        /\ domain_control.thread[t].pc = "sleep"
        /\ domain_control.time >= domain_control.thread[t].wake
        /\ domain_control' =
            [domain_control EXCEPT
                !.last_request_at[domain_control.thread[t].domain] = domain_control.time,
                !.thread[t].pc = AfterTurn(domain_control.thread[t].op)]
    /\ UNCHANGED <<jobVars, dlVars, wwVars, exVars, apiVars, dbVars, poll, callers, get, http, stream>>

\* _guarded_request is called: under cooldown it records the diagnostic and
\* returns None, otherwise it enters wait_turn
_guarded_request_call ==
    /\ domain_control.thread["crawl"].pc = "idle"
    /\ Len(domain_control.diagnostics) < MaxDiagnostics
    /\ \E domain \in Domains :
        domain_control' =
            IF is_blocked(domain_control, domain)
            THEN [_record_diag(domain_control, domain, 0, TRUE, "domain cooldown active")
                    EXCEPT !.returned = "None"]
            ELSE wait_turn_enter([domain_control EXCEPT !.returned = ""], "crawl",
                                 "_guarded_request", domain,
                                 domain_control.crawl_domain_delay_seconds)
    /\ UNCHANGED <<jobVars, dlVars, wwVars, exVars, apiVars, dbVars, poll, callers, get, http, stream>>

\* _guarded_request after wait_turn: the request, the classification of its
\* response, the cooldown and the diagnostic
_guarded_request ==
    /\ domain_control.thread["crawl"].pc = "request"
    /\ \E answer \in CrawlAnswers :
        LET domain == domain_control.thread["crawl"].domain
            sent == [domain_control EXCEPT !.thread["crawl"] = IdleThread]
            blocked == is_blocked_response(answer)
            marked == IF blocked
                      THEN mark_blocked(sent, domain,
                                        domain_control.crawl_block_cooldown_seconds)
                      ELSE sent
        IN  domain_control' =
                IF answer.kind # "response"
                THEN [_record_diag(sent, domain, 0, FALSE, answer.kind)
                        EXCEPT !.returned = "None"]
                ELSE [_record_diag(marked, domain, answer.status_code, blocked, "")
                        EXCEPT !.returned = "response"]
    /\ UNCHANGED <<jobVars, dlVars, wwVars, exVars, apiVars, dbVars, poll, callers, get, http, stream>>

\* DELETE /crawl/cooldowns/{domain}
clear_cooldown_for_domain ==
    /\ \E domain \in Domains :
        /\ domain_control.blocked_until[domain] # 0
        /\ domain_control' = unblock(domain_control, domain)
    /\ UNCHANGED <<jobVars, dlVars, wwVars, exVars, apiVars, dbVars, poll, callers, get, http, stream>>

\* DELETE /crawl/cooldowns
clear_cooldowns ==
    /\ domain_control' = clear(domain_control)
    /\ domain_control' # domain_control
    /\ UNCHANGED <<jobVars, dlVars, wwVars, exVars, apiVars, dbVars, poll, callers, get, http, stream>>

\* a second passes
CrawlClock ==
    /\ domain_control.time < MaxCrawlTime
    /\ domain_control' = [domain_control EXCEPT !.time = @ + 1]
    /\ UNCHANGED <<jobVars, dlVars, wwVars, exVars, apiVars, dbVars, poll, callers, get, http, stream>>

(***************************************************************************)
(* The run-events stream: stream_job_events of api/jobs.py, one stream,    *)
(* and the rows of job_runs that its polls read.                           *)
(***************************************************************************)
SeenMaxlen == 4         \* deque(maxlen=500), scaled down
StreamRuns == 1..3      \* the runs inside the warm-up window, by created_at
MaxStamp == 2           \* updates of one run
MaxStreamPolls == 4     \* polls of the stream
RunVersions == [status : {"RUNNING", "DONE"}, updated_at : 0..MaxStamp]
IdleStream ==
    [pc |-> "idle", seen_versions |-> <<>>, seen_lookup |-> {},
     recent |-> <<>>, ever |-> {}, emitted |-> <<>>, polls |-> 0,
     runs |-> [r \in StreamRuns |-> [status |-> "RUNNING", updated_at |-> 0]]]

\* f"{run.run_id}:{run.status}:{stamp_text}"
_run_version_key(runs, run_id) ==
    <<run_id, runs[run_id].status, runs[run_id].updated_at>>
\* the last n elements of s
LastN(s, n) == IF n >= Len(s) THEN s ELSE SubSeq(s, Len(s) - n + 1, Len(s))
\* deque(maxlen).append: a full deque drops its leftmost element; recent is
\* the window of the last versions seen and ever the set of all of them,
\* kept beside the two collections of the code
DequeAppend(deque, x) == LastN(Append(deque, x), SeenMaxlen)

\* the loop over reversed(runs): the versions not in seen_lookup are
\* appended to seen_versions, added to seen_lookup and kept as fresh
RECURSIVE Observe(_, _)
Observe(st, versions) ==
    IF versions = <<>> THEN st
    ELSE LET version == Head(versions)
         IN  IF version \in st.seen_lookup
             THEN Observe(st, Tail(versions))
             ELSE Observe([st EXCEPT
                              !.seen_versions = DequeAppend(@, version),
                              !.seen_lookup = @ \cup {version},
                              !.recent = DequeAppend(@, version),
                              !.ever = @ \cup {version},
                              !.emitted = Append(@, version)],
                          Tail(versions))
\* while len(seen_lookup) > seen_versions.maxlen: popleft and discard
RECURSIVE Evict(_)
Evict(st) ==
    IF Cardinality(st.seen_lookup) <= SeenMaxlen THEN st
    ELSE Evict([st EXCEPT !.seen_versions = Tail(@),
                          !.seen_lookup = @ \ {Head(st.seen_versions)}])

\* GET /jobs/events
stream_job_events ==
    /\ stream.pc = "idle"
    /\ stream' = [stream EXCEPT !.pc = "open"]
    /\ UNCHANGED <<jobVars, dlVars, wwVars, exVars, apiVars, dbVars, poll, callers, get, http, domain_control>>

\* one iteration of the loop of event_stream: the query, the fresh
\* versions, the eviction and the events that are yielded
event_stream ==
    /\ stream.pc = "open"
    /\ stream.polls < MaxStreamPolls
    /\ LET versions == [k \in 1..Cardinality(StreamRuns) |->
                            _run_version_key(stream.runs, k)]
           seen == Observe([stream EXCEPT !.emitted = <<>>], versions)
       IN  stream' = [Evict(seen) EXCEPT !.polls = @ + 1]
    /\ UNCHANGED <<jobVars, dlVars, wwVars, exVars, apiVars, dbVars, poll, callers, get, http, domain_control>>

\* the client disconnects
stream_disconnected ==
    /\ stream.pc = "open"
    /\ stream' = [stream EXCEPT !.pc = "closed"]
    /\ UNCHANGED <<jobVars, dlVars, wwVars, exVars, apiVars, dbVars, poll, callers, get, http, domain_control>>

\* a run is updated, by a heartbeat or by the end of the run
run_updated ==
    /\ \E r \in StreamRuns, status \in {"RUNNING", "DONE"} :
        /\ stream.runs[r].status = "RUNNING"
        /\ stream.runs[r].updated_at < MaxStamp
        /\ stream' = [stream EXCEPT !.runs[r] =
                        [status |-> status, updated_at |-> stream.runs[r].updated_at + 1]]
    /\ UNCHANGED <<jobVars, dlVars, wwVars, exVars, apiVars, dbVars, poll, callers, get, http, domain_control>>

(***************************************************************************)
(* Initial values of the three subsystems                                  *)
(***************************************************************************)
JobsStart ==
    /\ job_runs = <<>>
    /\ held = {}
    /\ req = [t \in Requests |-> IdleReq]
    /\ celery_queue = {}
    /\ worker = [w \in Workers |-> IdleWorker]
    /\ sched = [pc |-> "sleep", at |-> 0, tick_at |-> NoStamp,
                last |-> [type \in {TickTriggers[k] : k \in 1..Len(TickTriggers)} |-> NoStamp]]
    /\ now = 0

DownloadStart(linked) ==
    /\ site = linked
    /\ registry = [u \in Urls |-> NoDoc]
    /\ retries = <<>>
    /\ change_log = <<>>
    /\ error_log = <<>>
    /\ dl = IdleDl
    /\ dnow = 0
    /\ digest = NoDigest
    /\ disk = {}
    /\ fetch = NoFetch

WebwatchStart ==
    /\ snapshots = <<>>
    /\ page_changes = <<>>
    /\ ww = [s \in WwSessions |-> IdleWw]

\* no pipeline run has reached the stages after the download
StagesIdle ==
    /\ stage = IdleStage
    /\ doc_rows = [d \in DocIds |->
            [local_path |-> DownloadedPath(d), doc_type |-> Unclassified,
             signals |-> "", metadata_extracted |-> FALSE]]
    /\ metadata_records = [d \in DocIds |-> NoRecord]
    /\ doc_files = {}

DashboardStart ==
    /\ api_cache = EmptyCache
    /\ ui = [time |-> 0, calls |-> 0, data |-> 0, stale |-> {}, last |-> NoCall]

\* the database of a deployment that went through the migration and the
\* patcher
SchemaIdle ==
    /\ schema = patched_schema(upgrade_schema([t \in DbTables |-> {}]))
    /\ migration = [upgrades |-> 0, patches |-> 0, last |-> "none"]

PollStart == poll = IdlePoll /\ callers = [c \in Callers |-> IdleCaller]

NetStart ==
    /\ get = IdleGet
    /\ http = IdleHttp
    /\ domain_control = ControlStart(0, 0)
    /\ stream = IdleStream

AuxStart == StagesIdle /\ DashboardStart /\ SchemaIdle /\ PollStart /\ NetStart

(***************************************************************************)
(* SpecJobs                                                                *)
(***************************************************************************)
InitJobs == JobsStart /\ DownloadStart({}) /\ WebwatchStart /\ AuxStart

NextJobs ==
    \/ \E t \in Requests : LaunchRequest(t)
    \/ \E t \in Requests : acquire_singleflight(t)
    \/ \E t \in Requests : ensure_no_overlap(t)
    \/ \E t \in Requests : launch_create_job_run(t)
    \/ \E t \in Requests : queue_task(t)
    \/ \E t \in Requests : run_company_sync(t)
    \/ \E t \in Requests : pipeline_graph_return(t)
    \/ \E w \in Workers : worker_take(w)
    \/ \E w \in Workers : run_all_companies(w)
    \/ \E w \in Workers : task_run_pipeline(w)
    \/ \E w \in Workers : task_run_daily_digest(w)
    \/ \E w \in Workers : task_run_hourly_webwatch(w)
    \/ scheduler_tick
    \/ queue_trigger
    \/ \E t \in Requests : tick_now(t)
    \/ \E t \in Requests : tick_now_trigger(t)
    \/ AdvanceClock

SpecJobs == InitJobs /\ [][NextJobs]_vars

(***************************************************************************)
(* SpecScheduler: the scheduler loop and the worker, hour by hour          *)
(***************************************************************************)
\* The state after a digest-now request was answered 200, before a worker
\* has taken its task.
JobsAfterDigestNow ==
    /\ now = 0
    /\ job_runs = [create_job_run(<<>>, "DIGEST", "QUEUED", "QUEUED", NoCompany, "NONE")
                        EXCEPT ![1].celery_job_id = TRUE]
    /\ held = {}
    /\ req = [t \in Requests |-> IF t = "r1"
                  THEN [IdleReq EXCEPT !.op = "digest_now", !.pc = "done",
                                       !.resp = 200, !.run = 1]
                  ELSE IdleReq]
    /\ celery_queue = {[name |-> "run_daily_digest", run_id |-> 1,
                        company |-> NoCompany, retries |-> 0]}
    /\ worker = [w \in Workers |-> IdleWorker]
    /\ sched = [pc |-> "sleep", at |-> 0, tick_at |-> NoStamp,
                last |-> [type \in {TickTriggers[k] : k \in 1..Len(TickTriggers)} |-> NoStamp]]

InitScheduler == (JobsStart \/ JobsAfterDigestNow) /\ DownloadStart({}) /\ WebwatchStart /\ AuxStart

NextScheduler ==
    \/ scheduler_tick
    \/ queue_trigger
    \/ \E w \in Workers : worker_take(w)
    \/ \E w \in Workers : run_all_companies(w)
    \/ \E w \in Workers : task_run_pipeline(w)
    \/ \E w \in Workers : task_run_daily_digest(w)
    \/ \E w \in Workers : task_run_hourly_webwatch(w)
    \/ job_status_by_run_id
    \/ _sync_run_status_from_celery
    \/ SchedulerClock

SpecScheduler == InitScheduler /\ [][NextScheduler]_vars

(***************************************************************************)
(* SpecStages: the classify, parse and extract nodes of one pipeline run   *)
(***************************************************************************)
\* the entries the download agent returned: no two for one document
DocInfoLists ==
    {docs \in UNION {[1..n -> [doc_id : DocInfoIds, status : DocStatuses,
                               full_text : {FALSE}]] : n \in 1..MaxDocs} :
        \A j, k \in 1..Len(docs) : j # k => docs[j].doc_id # docs[k].doc_id}

\* The rows as the download agent left them: unclassified, the file under
\* the folder of the crawler's guess; a document whose content another row
\* has already may share that row's file (global dedupe); the documents the
\* run found NEW or UPDATED are not flagged, the others may have a record.
StagesStart ==
    /\ \E docs \in DocInfoLists : stage = [IdleStage EXCEPT !.downloaded_docs = docs,
                                                            !.todo = docs]
    /\ \E shared \in BOOLEAN, signals \in [DocIds -> Signals], flagged \in [DocIds -> BOOLEAN] :
        /\ \A k \in 1..Len(stage.downloaded_docs) :
                (/\ stage.downloaded_docs[k].doc_id \in DocIds
                 /\ stage.downloaded_docs[k].status \in {"NEW", "UPDATED"})
                    => ~flagged[stage.downloaded_docs[k].doc_id]
        /\ doc_rows = [d \in DocIds |->
                [local_path |-> IF shared THEN DownloadedPath(1) ELSE DownloadedPath(d),
                 doc_type |-> Unclassified, signals |-> signals[d],
                 metadata_extracted |-> flagged[d]]]
        /\ metadata_records = [d \in DocIds |->
                IF flagged[d]
                THEN [present |-> TRUE, document_type |-> "LLM", from_llm |-> TRUE]
                ELSE NoRecord]
    /\ doc_files = {doc_rows[d].local_path : d \in DocIds}

InitStages ==
    /\ JobsStart /\ DownloadStart({}) /\ WebwatchStart
    /\ StagesStart /\ DashboardStart /\ SchemaIdle /\ PollStart /\ NetStart

NextStages ==
    \/ classify_document
    \/ parse_agent_documents
    \/ extract_document
    \/ extract_agent_return

SpecStages == InitStages /\ [][NextStages]_vars

(***************************************************************************)
(* SpecDashboard: the calls of one dashboard session, second by second     *)
(***************************************************************************)
InitDashboard ==
    /\ JobsStart /\ DownloadStart({}) /\ WebwatchStart
    /\ StagesIdle /\ DashboardStart /\ SchemaIdle /\ PollStart /\ NetStart

NextDashboard ==
    \/ \E method \in Methods, path \in ApiPaths : api(method, path)
    \/ DashboardClock

SpecDashboard == InitDashboard /\ [][NextDashboard]_vars

(***************************************************************************)
(* SpecSchema: the migration and the patcher on a database of any age      *)
(***************************************************************************)
\* every table is missing, or is there with any of the later columns
SchemaStart ==
    /\ \E present \in SUBSET DbTables,
          job_run_columns \in SUBSET KnownColumns("job_runs"),
          document_columns \in SUBSET KnownColumns("document_registry") :
        schema = [t \in DbTables |->
            IF t \notin present THEN {}
            ELSE IF t = "job_runs" THEN {"id"} \cup job_run_columns
            ELSE IF t = "document_registry" THEN {"id"} \cup document_columns
            ELSE {"id"}]
    /\ migration = [upgrades |-> 0, patches |-> 0, last |-> "none"]

InitSchema ==
    /\ JobsStart /\ DownloadStart({}) /\ WebwatchStart
    /\ StagesIdle /\ DashboardStart /\ SchemaStart /\ PollStart /\ NetStart

NextSchema ==
    \/ upgrade
    \/ ensure_runtime_schema_compatibility

SpecSchema == InitSchema /\ [][NextSchema]_vars

(***************************************************************************)
(* SpecGuard: threads entering and leaving single-flight blocks            *)
(***************************************************************************)
InitGuard ==
    /\ JobsStart /\ DownloadStart({}) /\ WebwatchStart
    /\ StagesIdle /\ DashboardStart /\ SchemaIdle /\ PollStart /\ NetStart

NextGuard ==
    \E c \in Callers :
        \/ singleflight_enter(c)
        \/ singleflight_exit(c)

SpecGuard == InitGuard /\ [][NextGuard]_vars

\* two bucket names are the same after trimming and lower-casing
SameBucket(a, b) == a.text = b.text
Holds(c) == callers[c].pc = "block"
HeldByAnother(c, bucket) ==
    \E d \in Callers \ {c} : Holds(d) /\ SameBucket(callers[d].bucket, bucket)
Attempts(c) == callers'[c].entries = callers[c].entries + 1

\* C30: no two callers hold the lock of one bucket name (compared after
\* trimming and lower-casing) at the same time; an attempt made while
\* another caller holds it is answered 409 in that very step and changes
\* nothing else, an attempt made while nobody holds it succeeds; and when a
\* holder's block exits, normally or by an exception, nobody holds the lock
\* any more.
C30_SingleFlight ==
    [][\A c \in Callers :
        /\ \A d \in Callers \ {c} :
            (Holds(c) /\ Holds(d))' => ~SameBucket(callers'[c].bucket, callers'[d].bucket)
        /\ Attempts(c) =>
            IF HeldByAnother(c, callers'[c].bucket)
            THEN /\ callers'[c].pc = "done" /\ callers'[c].resp = 409
                 /\ held' = held
                 /\ \A d \in Callers \ {c} : callers'[d] = callers[d]
            ELSE (Holds(c))'
        /\ (Holds(c) /\ ~(Holds(c))') =>
            /\ callers'[c].resp \in {200, 500}
            /\ ~(HeldByAnother(c, callers[c].bucket))'
            /\ callers[c].key \notin held']_vars

\* One thread holds the lock of a bucket in the second block it has entered,
\* after its first block ended and released its lock; the other was refused
\* for the same bucket written differently (capitals, blanks).
C30_Witness ==
    \E c, d \in Callers :
        /\ c # d
        /\ Holds(c) /\ callers[c].entries = MaxEntries
        /\ callers[d].pc = "done" /\ callers[d].resp = 409
        /\ SameBucket(callers[c].bucket, callers[d].bucket)
        /\ callers[c].bucket # callers[d].bucket

(***************************************************************************)
(* SpecDownloadCall: one call of _download against any server              *)
(***************************************************************************)
InitDownloadCall == JobsStart /\ DownloadStart({}) /\ WebwatchStart /\ AuxStart
NextDownloadCall ==
    \/ _download_call
    \/ _download_attempt
SpecDownloadCall == InitDownloadCall /\ [][NextDownloadCall]_vars

(***************************************************************************)
(* SpecRequest: one call of request_with_retries against any server        *)
(***************************************************************************)
InitRequest == JobsStart /\ DownloadStart({}) /\ WebwatchStart /\ AuxStart
NextRequest ==
    \/ request_with_retries_call
    \/ request_with_retries
SpecRequest == InitRequest /\ [][NextRequest]_vars

(***************************************************************************)
(* Claims about the HTTP calls                                             *)
(***************************************************************************)
\* the step is a GET request of _download that was answered
GetAnswered == Len(get'.responses) = Len(get.responses) + 1
LastAnswer == get'.responses[Len(get'.responses)]

\* C36: the first response of a download that is classified as blocked
\* (status 401, 403, 429 or 503, or a block pattern in the body) ends the
\* download at once with DOWNLOAD_BLOCKED; no further GET is sent.
C36_BlockedEndsDownload ==
    [][(GetAnswered /\ LastAnswer.kind = "response" /\ is_blocked_response(LastAnswer))
        => (get'.pc = "returned" /\ get'.error_type = "DOWNLOAD_BLOCKED")
    ]_vars

\* ---- request_with_retries, with the loop going on until the call ends ----
\* every request has a timeout, so an iteration that began ends
SpecRequestFair == SpecRequest /\ WF_vars(request_with_retries)

Retryable(answer) ==
    answer.kind = "response" /\ answer.status_code \in RETRYABLE_STATUSES
HttpEnded == http.pc \in {"returned", "raised"}
LastHttpAnswer == http.answers[Len(http.answers)]
\* at most `retries` requests are sent, and a further attempt follows only
\* a network-level exception or a retryable status
AttemptsBounded ==
    /\ http.requests <= http.retries
    /\ Len(http.answers) = http.requests
    /\ \A k \in 1..(Len(http.answers) - 1) :
        Retryable(http.answers[k]) \/ http.answers[k].kind = "network_error"
    /\ http.pc = "attempt" => http.requests < http.retries
\* a response with a non-retryable status is returned, and it is the first
FirstGoodReturned ==
    (/\ http.requests > 0
     /\ LastHttpAnswer.kind = "response"
     /\ ~Retryable(LastHttpAnswer)) => http.pc = "returned"
\* the attempts are exhausted: there was one at least, every one was made
\* and none gave a response with a non-retryable status
Exhausted ==
    /\ HttpEnded
    /\ http.requests > 0
    /\ http.requests = http.retries
    /\ Retryable(LastHttpAnswer) \/ LastHttpAnswer.kind # "response"

\* C39 as stated: request_with_retries sends at most `retries` requests and
\* always terminates; it retries only after a network-level exception or a
\* retryable status and only while attempts remain, returns the first
\* response with a non-retryable status, and when the attempts are
\* exhausted it ends by re-raising the last exception.
C39_ExhaustedReraises ==
    /\ AttemptsBounded
    /\ FirstGoodReturned
    /\ Exhausted => http.pc = "raised"

\* C39, amended: request_with_retries sends at most `retries` requests and
\* always terminates; it retries only after a network-level exception or a
\* retryable status and only while attempts remain, returns the first
\* response with a non-retryable status, and when the attempts are
\* exhausted it ends by re-raising the exception of the last attempt, or,
\* when the last attempt was answered with a retryable status, by returning
\* that response.
C39_ExhaustedEnds ==
    /\ [](/\ AttemptsBounded
          /\ FirstGoodReturned
          /\ Exhausted =>
                IF LastHttpAnswer.kind = "response"
                THEN http.pc = "returned"
                ELSE http.pc = "raised" /\ http.raised = LastHttpAnswer.kind)
    /\ (http.pc = "attempt") ~> HttpEnded
\* the third of three attempts was answered with a retryable status after a
\* network-level exception, and the response was returned
C39_Witness ==
    /\ http.pc = "returned"
    /\ http.retries = 3
    /\ http.requests = 3
    /\ http.answers[2].kind = "network_error"
    /\ Retryable(http.answers[3])

\* ---- the crawl control: one crawl, one more thread, the operator ----
InitCrawlControl ==
    /\ JobsStart /\ DownloadStart({}) /\ WebwatchStart
    /\ StagesIdle /\ DashboardStart /\ SchemaIdle /\ PollStart
    /\ get = IdleGet /\ http = IdleHttp /\ stream = IdleStream
    /\ \E delay \in Delays, cooldown \in Cooldowns :
        domain_control = ControlStart(delay, cooldown)
NextCrawlControl ==
    \/ wait_turn_call
    \/ wait_turn
    \/ _guarded_request_call
    \/ _guarded_request
    \/ clear_cooldown_for_domain
    \/ clear_cooldowns
    \/ CrawlClock
SpecCrawlControl == InitCrawlControl /\ [][NextCrawlControl]_vars

\* ---- the run-events stream and the runs ----
InitStream == JobsStart /\ DownloadStart({}) /\ WebwatchStart /\ AuxStart
NextStream ==
    \/ stream_job_events
    \/ event_stream
    \/ stream_disconnected
    \/ run_updated
SpecStream == InitStream /\ [][NextStream]_vars

(***************************************************************************)
(* Claims about the crawl control (checked under SpecCrawlControl)         *)
(***************************************************************************)
CrawlThread == domain_control.thread["crawl"]
UnderCooldown(d) == domain_control.time < domain_control.blocked_until[d]
LastDiagnostic == domain_control'.diagnostics[Len(domain_control'.diagnostics)]
DiagnosticAdded == Len(domain_control'.diagnostics) = Len(domain_control.diagnostics) + 1
\* the step is a call of _guarded_request for a URL of the domain d
CallsGuarded(d) ==
    /\ CrawlThread.pc = "idle"
    /\ \/ domain_control'.thread["crawl"].pc # "idle"
          /\ domain_control'.thread["crawl"].domain = d
       \/ DiagnosticAdded /\ LastDiagnostic.domain = d
\* the call ends at once: no request, None, a diagnostic with blocked = true
Refused(d) ==
    /\ domain_control'.thread["crawl"].pc = "idle"
    /\ domain_control'.returned = "None"
    /\ DiagnosticAdded
    /\ LastDiagnostic.domain = d
    /\ LastDiagnostic.blocked
    /\ LastDiagnostic.status_code = 0
\* the step sends the HTTP request of a guarded request to the domain d
SendsRequest(d) ==
    /\ CrawlThread.pc = "request"
    /\ CrawlThread.domain = d
    /\ domain_control'.thread["crawl"].pc = "idle"
ClassifiedBlocked(d) == SendsRequest(d) /\ LastDiagnostic.blocked

\* C37: within a crawl, once a response from a domain was classified as
\* blocked with a positive cooldown configured, the domain is under cooldown
\* until the cooldown expires or an operator unblocks it; every guarded
\* request made to a domain under cooldown sends no HTTP request, returns no
\* response and appends a diagnostic with blocked = true; an HTTP request
\* is sent only when the domain is not under cooldown.
C37_CooldownRefusesRequests ==
    [][\A d \in Domains :
        /\ (ClassifiedBlocked(d) /\ domain_control.crawl_block_cooldown_seconds > 0)
            => domain_control'.blocked_until[d] >=
                    domain_control.time + domain_control.crawl_block_cooldown_seconds
        /\ domain_control'.blocked_until[d] < domain_control.blocked_until[d]
            => /\ domain_control'.blocked_until[d] = 0
               /\ domain_control'.thread = domain_control.thread
               /\ domain_control'.diagnostics = domain_control.diagnostics
        /\ (CallsGuarded(d) /\ UnderCooldown(d)) => Refused(d)
        /\ SendsRequest(d) => ~UnderCooldown(d)
      ]_vars
\* a response of the domain was classified as blocked, and the next guarded
\* request to the domain was refused
C37_Witness ==
    /\ Len(domain_control.diagnostics) = 2
    /\ domain_control.diagnostics[1].status_code = 403
    /\ domain_control.diagnostics[1].blocked
    /\ domain_control.diagnostics[2].domain = domain_control.diagnostics[1].domain
    /\ domain_control.diagnostics[2].error = "domain cooldown active"
    /\ domain_control.returned = "None"
    /\ domain_control.thread["crawl"].pc = "idle"

\* the step is the return of wait_turn in the thread t
WaitTurnReturns(t) ==
    /\ domain_control.thread[t].pc = "sleep"
    /\ domain_control'.thread[t].pc # "sleep"

\* C38: for min_delay > 0 every call of wait_turn returns no earlier than
\* min_delay seconds after the previous recorded request to its domain, also
\* when the calls come from concurrent threads, and a call is delayed by the
\* requests to its own domain only.
C38_TurnsSpaced ==
    [][\A t \in CrawlThreads :
        /\ WaitTurnReturns(t)
            => domain_control.time >=
                    domain_control.last_request_at[domain_control.thread[t].domain]
                        + domain_control.thread[t].min_delay
        /\ (domain_control.thread[t].pc = "idle" /\ domain_control'.thread[t].pc = "sleep")
            => domain_control'.thread[t].wake =
                    Max(domain_control.time,
                        domain_control.last_request_at[domain_control'.thread[t].domain]
                            + domain_control'.thread[t].min_delay)
      ]_vars

(***************************************************************************)
(* Claims about the run-events stream (checked under SpecStream)           *)
(***************************************************************************)
\* the step is a poll of the stream
Polled == stream'.polls = stream.polls + 1
\* the last SeenMaxlen versions seen when the k-th event of the poll is due
WindowAt(k) == LastN(stream.recent \o SubSeq(stream'.emitted, 1, k - 1), SeenMaxlen)

\* C40: within one stream a version key is emitted when it is first
\* observed, and it is not emitted again while it is among the last
\* SeenMaxlen versions seen.
C40_NoRepeatInsideWindow ==
    [][Polled =>
        /\ \A r \in StreamRuns :
            _run_version_key(stream.runs, r) \notin stream.ever
                => _run_version_key(stream.runs, r) \in Range(stream'.emitted)
        /\ \A k \in 1..Len(stream'.emitted) :
            stream'.emitted[k] \notin Range(WindowAt(k))
      ]_vars

(***************************************************************************)
(* Claims about the stages after the download (checked under SpecStages)   *)
(***************************************************************************)
\* a step of the extract loop that worked on the document d
ExtractsDocument(d) ==
    /\ stage.node = "extract"
    /\ stage.todo # <<>>
    /\ Head(stage.todo).doc_id = d
    /\ Head(stage.todo).full_text
    /\ stage'.node = "extract"
    /\ stage'.doc_id = d
\* none of the calls of the LLM made for the document gave an answer
EveryAttemptFailed == \A a \in 1..LlmAttempts : stage'.attempts[a] \in {"empty", "raises"}

\* C23: when every attempt to get an answer from the LLM fails for a
\* document, the extract stage writes no MetadataRecord for it, leaves its
\* metadata_extracted flag false, and goes on to the next document.
C23_FailedExtractionSkipsDocument ==
    [][\A d \in DocIds :
        (ExtractsDocument(d) /\ EveryAttemptFailed)
            => /\ metadata_records'[d] = metadata_records[d]
               /\ ~doc_rows'[d].metadata_extracted
               /\ stage'.todo = Tail(stage.todo)]_vars

\* a step of the classify loop that worked on the NEW or UPDATED document d
ClassifiesDocument(d) ==
    /\ stage.node = "classify"
    /\ stage.todo # <<>>
    /\ Head(stage.todo).doc_id = d
    /\ Head(stage.todo).status \in {"NEW", "UPDATED"}
    /\ stage'.node = "classify"
    /\ stage'.doc_id = d
SharesPath(d) == \E e \in DocIds \ {d} : doc_rows[e].local_path = doc_rows[d].local_path

\* C24: when the classify stage has worked on a NEW or UPDATED document,
\* the file is in the subfolder of the new doc_type and local_path names
\* it; the old path still holds a file if another row shares it (the file
\* was copied) and holds none otherwise (the file was moved).
C24_ClassifyRehomesFile ==
    [][\A d \in DocIds :
        ClassifiesDocument(d)
            => /\ doc_rows'[d].local_path.folder = target_subfolder(doc_rows'[d].doc_type)
               /\ doc_rows'[d].local_path \in doc_files'
               /\ (doc_rows[d].local_path \in doc_files') = SharesPath(d)]_vars

(***************************************************************************)
(* Claims about the dashboard's API client (checked under SpecDashboard)   *)
(***************************************************************************)
WriteCall ==
    /\ ui'.calls = ui.calls + 1
    /\ ui'.last.method \in {"POST", "PATCH", "DELETE"}
ServedFromCache ==
    /\ ui'.calls = ui.calls + 1
    /\ ui'.last.from_cache

\* C25: every POST, PATCH or DELETE call, whatever its outcome or response
\* body, leaves the GET cache empty, so that a GET after a write is never
\* answered with a response cached before that write; and no response is
\* served from the cache more than DEFAULT_CACHE_TTL_SEC after it was stored.
C25_WritesInvalidateCache ==
    [][/\ WriteCall => api_cache' = EmptyCache
       /\ ServedFromCache =>
            /\ ui'.last.path \notin ui.stale
            /\ ui.time - api_cache[ui'.last.path].ts <= DEFAULT_CACHE_TTL_SEC]_vars

\* the part of C25 about stale answers alone
StaleAnswerNeverServed == [][ServedFromCache => ui'.last.path \notin ui.stale]_vars
\* the part of C25 about the age of the answers served
ServedWithinTtl ==
    [][ServedFromCache =>
        ui.time - api_cache[ui'.last.path].ts <= DEFAULT_CACHE_TTL_SEC]_vars

(***************************************************************************)
(* Claims about the schema (checked under SpecSchema)                      *)
(***************************************************************************)
\* a run of upgrade on a database on which upgrade has run before
SecondUpgrade ==
    /\ migration.upgrades >= 1
    /\ migration'.upgrades = migration.upgrades + 1
\* a run of the patcher on a database on which upgrade has run
PatcherAtHead ==
    /\ migration.upgrades >= 1
    /\ migration'.patches = migration.patches + 1

\* C26: a second run of the bootstrap migration's upgrade leaves the tables
\* and columns exactly as the first run left them, whatever the schema the
\* database started from, and a run of the runtime schema-compatibility
\* patcher on a database the migration has brought to head changes nothing.
C26_MigrationIdempotent ==
    [][/\ SecondUpgrade => schema' = schema
       /\ PatcherAtHead => schema' = schema]_vars

\* the part of C26 about the migration alone
SecondUpgradeChangesNothing == [][SecondUpgrade => schema' = schema]_vars

(***************************************************************************)
(* Claims about job launches (checked under SpecJobs)                      *)
(***************************************************************************)
RunIds == 1..Len(job_runs)
IsActive(i) == job_runs[i].status \in {"QUEUED", "RUNNING", "RETRYING"}
IsTerminal(i) == job_runs[i].status \in {"DONE", "FAILED"}
\* A fleet run that a launch request created: run_all leaves company_name
\* empty, run_all_direct is the only DIRECT one; the scheduler's runs are
\* QUEUED with company_name ALL_ACTIVE_COMPANIES.
FleetRunOfRequest(i) ==
    /\ job_runs[i].trigger_type = "PIPELINE_ALL"
    /\ (job_runs[i].mode = "DIRECT" \/ job_runs[i].company_name = "NONE")

\* C1: of the PIPELINE_ALL runs that run-all / run-all-direct requests of one
\* process create concurrently or back to back (within the overlap window),
\* at most one is active (QUEUED, RUNNING, RETRYING) at any time, and a
\* request answered 409 has created no JobRun.
C1_OneActiveFleetLaunch ==
    /\ \A i, j \in RunIds :
        (i < j /\ FleetRunOfRequest(i) /\ FleetRunOfRequest(j) /\ IsActive(i) /\ IsActive(j))
            => job_runs[j].created_at - job_runs[i].created_at > WindowHours
    /\ \A t \in Requests : req[t].resp = 409 => req[t].run = NoRun

\* Two run-all requests: one has created its run, which is still active, the
\* other was answered 409.
C1_Witness ==
    \E t, u \in Requests :
        /\ t # u
        /\ req[t].op \in FleetOps /\ req[u].op \in FleetOps
        /\ req[t].run # NoRun /\ IsActive(req[t].run)
        /\ req[u].pc = "done" /\ req[u].resp = 409

\* C2: whenever the pipeline graph is being invoked, by an API handler or by
\* a worker, a JobRun in status RUNNING records that execution.
C2_EveryInvocationHasJobRun ==
    /\ \A t \in Requests :
        req[t].pc = "graph" =>
            (req[t].run \in RunIds /\ job_runs[req[t].run].status = "RUNNING")
    /\ \A w \in Workers :
        worker[w].pc = "graph" =>
            (worker[w].run_id \in RunIds /\ job_runs[worker[w].run_id].status = "RUNNING")

\* C3: once nothing is left to act (every request answered, the queue empty,
\* every worker idle, the scheduler between ticks), every JobRun is DONE or
\* FAILED and carries its result or its error message.
Quiescent ==
    /\ \A t \in Requests : req[t].pc \in {"new", "done"}
    /\ celery_queue = {}
    /\ \A w \in Workers : worker[w].pc = "idle"
    /\ sched.pc = "sleep"

C3_NoRunLeftActive ==
    Quiescent =>
        \A i \in RunIds :
            /\ IsTerminal(i)
            /\ (job_runs[i].result_payload \/ job_runs[i].error_message)

\* the answered launch requests of these endpoints during which the graph
\* raised
Raised(ops) ==
    {t \in Requests : req[t].op \in ops /\ req[t].pc = "done" /\ req[t].errors # {}}

\* C17 (as stated): a direct launch during which the graph raised is
\* answered 500 and its JobRun is FAILED with the error message.
C17_DirectRaiseIsFailed ==
    \A t \in Raised(DirectOps) :
        /\ req[t].resp = 500
        /\ req[t].run \in RunIds
        /\ job_runs[req[t].run].status = "FAILED"
        /\ job_runs[req[t].run].error_message

\* C17 (amended): a run-direct launch during which the graph raised is
\* answered 500 and its JobRun is FAILED with the error message; a
\* run-all-direct launch during which the graph raised for a company goes on
\* with the next company, is answered 200 and its JobRun is DONE with the
\* payload that lists the errors.
C17_SingleDirectRaiseIsFailed ==
    /\ \A t \in Raised({"run_direct"}) :
        /\ req[t].resp = 500
        /\ req[t].run \in RunIds
        /\ job_runs[req[t].run].status = "FAILED"
        /\ job_runs[req[t].run].error_message
    /\ \A t \in Raised({"run_all_direct"}) :
        /\ req[t].resp = 200
        /\ req[t].run \in RunIds
        /\ job_runs[req[t].run].status = "DONE"
        /\ job_runs[req[t].run].result_payload

\* One direct launch of each kind has been answered after the graph raised.
C17_Witness ==
    /\ Raised({"run_direct"}) # {}
    /\ Raised({"run_all_direct"}) # {}

\* the runs of single companies whose run_pipeline task was dispatched
QueuedCompanyRuns ==
    {i \in RunIds : /\ job_runs[i].trigger_type = "PIPELINE"
                    /\ job_runs[i].mode = "QUEUED"
                    /\ job_runs[i].celery_job_id}
\* the retries counter of the execution of run i in progress
Attempting(i, n) ==
    \E w \in Workers : /\ worker[w].pc = "graph"
                        /\ worker[w].run_id = i
                        /\ worker[w].retries = n
Pending(i) == \E task \in celery_queue : task.run_id = i
StatusStep(i, from, to) ==
    job_runs[i].status = from /\ job_runs'[i].status = to

C19_DigestLaunchUnderLock ==
    /\ \A t \in Requests :
        (req[t].op = "digest_now" /\ req[t].pc \in {"create", "dispatch"})
            => "digest-launch" \in held
    /\ \A i, j \in RunIds :
        (/\ i < j
         /\ job_runs[i].trigger_type = "DIGEST" /\ job_runs[j].trigger_type = "DIGEST"
         /\ IsActive(i) /\ IsActive(j))
            => job_runs[j].created_at - job_runs[i].created_at > WindowHours

\* the ticks in progress: the loop's, and those of tick requests
TicksInProgress ==
    {t \in Requests : req[t].pc \in {"tick", "tick_trigger"}}
        \cup (IF sched.pc = "trigger" THEN {"loop"} ELSE {})

\* C20: at most one tick is in progress; a tick request answered busy got
\* 200 with no trigger and has created no JobRun, and the step that answers
\* it leaves job_runs, the queue and the scheduler's settings as they were.
C20_OneTickAtATime ==
    /\ [](/\ Cardinality(TicksInProgress) <= 1
          /\ \A t \in Requests :
                req[t].busy =>
                    /\ req[t].resp = 200
                    /\ req[t].triggers = {}
                    /\ req[t].run = NoRun)
    /\ [][\A t \in Requests :
            (req'[t].busy /\ ~req[t].busy) =>
                /\ TicksInProgress # {}
                /\ job_runs' = job_runs
                /\ celery_queue' = celery_queue
                /\ sched' = sched
       ]_vars

\* A tick request was answered busy while the loop's tick is in progress.
C20_Witness ==
    \E t \in Requests :
        /\ req[t].op = "tick_now"
        /\ req[t].pc = "done"
        /\ req[t].busy
        /\ sched.pc = "trigger"

\* the handler of the request has passed its overlap checks and has not
\* answered yet
Accepted(t) == req[t].pc \in {"create", "dispatch", "invoke", "graph"}

\* C27: a single-company launch (run, run-direct) passes only while no
\* PIPELINE_ALL run is active and a run-all launch only while no PIPELINE
\* or PIPELINE_ALL run is active, so that of a single-company request and
\* a run-all request handled at the same time in one process at most one
\* is accepted.
C27_SingleAndFleetLaunchExclusive ==
    \A t, u \in Requests :
        ~(/\ req[t].op \in {"run", "run_direct"}
          /\ req[u].op \in FleetOps
          /\ Accepted(t)
          /\ Accepted(u))

\* a direct single-company run that is executing the graph, before and after
\* the step
DirectRunExecuting(u) ==
    /\ req[u].op = "run_direct"
    /\ req[u].pc = "graph"
    /\ req'[u] = req[u]

\* C31: the launch lock is held for the launch decision only: while a direct
\* single-company run for company A is executing, a launch request for a
\* different company B that reaches acquire_singleflight is not answered 409.
C31_LockOnlyForDecision ==
    [][\A t, u \in Requests :
        (/\ DirectRunExecuting(u)
         /\ req[t].pc = "acquire"
         /\ req[t].op \in {"run", "run_direct"}
         /\ req[t].company # req[u].company) => req'[t].resp # 409
    ]_vars

(***************************************************************************)
(* Claims about the scheduler's triggers (checked under SpecScheduler)     *)
(***************************************************************************)
\* A step of the loop's thread that starts a tick and leaves a trace of it.
TickStarts == sched.pc = "sleep" /\ sched' # sched
\* The step of the loop's thread that is its _queue_trigger for a type.
TriggerStep(type) ==
    sched.pc = "trigger" /\ TickTriggers[sched.at] = type /\ sched' # sched
ActiveOfTypes(types) ==
    \E i \in RunIds : /\ job_runs[i].trigger_type \in types
                      /\ IsActive(i)
                      /\ job_runs[i].created_at >= now - WindowHours
\* The step adds one row of the type to job_runs, and either it dispatches
\* the task and stamps the time the tick began or the row is FAILED and the
\* stamp is kept.
EnqueuesOne(type, task) ==
    /\ Len(job_runs') = Len(job_runs) + 1
    /\ \A i \in RunIds : job_runs'[i] = job_runs[i]
    /\ job_runs'[Len(job_runs')].trigger_type = type
    /\ \/ /\ job_runs'[Len(job_runs')].status = "QUEUED"
          /\ celery_queue' = celery_queue \cup
                {[name |-> task, run_id |-> Len(job_runs'),
                  company |-> NoCompany, retries |-> 0]}
          /\ sched'.last[type] = sched.tick_at
       \/ /\ job_runs'[Len(job_runs')].status = "FAILED"
          /\ celery_queue' = celery_queue
          /\ sched'.last[type] = sched.last[type]
\* The rows the scheduler made for a type.
SchedulerRows(type) ==
    {i \in RunIds : /\ job_runs[i].trigger_type = type
                    /\ job_runs[i].company_name = "ALL_ACTIVE_COMPANIES"}
FleetElapsed ==
    /\ sched.last["PIPELINE_ALL"] # NoStamp
    /\ now - sched.last["PIPELINE_ALL"] >= PipelineIntervalHours

\* C21 (as stated): a tick goes on to enqueue a PIPELINE_ALL run exactly when
\* the fleet pipeline has never run or has not run within the interval, and
\* no PIPELINE or PIPELINE_ALL run is active.
C21_FleetTriggerAlsoWhenNeverRun ==
    [][ TickStarts =>
          ((sched'.at = 1) <=>
              /\ (sched.last["PIPELINE_ALL"] = NoStamp \/ FleetElapsed)
              /\ ~ActiveOfTypes({"PIPELINE", "PIPELINE_ALL"})) ]_vars

\* C21 (amended): a tick goes on to enqueue a PIPELINE_ALL run exactly when a
\* last pipeline run is stamped, the interval has elapsed since and no
\* PIPELINE or PIPELINE_ALL run is active; it then adds exactly one
\* PIPELINE_ALL row and, unless the dispatch raised, queues run_all_companies
\* and stamps the time.  A tick that finds no stamp stores the time as the
\* stamp and enqueues nothing; no other step adds a PIPELINE_ALL row or
\* changes the stamp.
C21_FleetTrigger ==
    [][ /\ TickStarts =>
            ((sched'.at = 1) <=>
                (FleetElapsed /\ ~ActiveOfTypes({"PIPELINE", "PIPELINE_ALL"})))
        /\ (TickStarts /\ sched.last["PIPELINE_ALL"] = NoStamp) =>
            (sched'.last["PIPELINE_ALL"] = now /\ job_runs' = job_runs)
        /\ TriggerStep("PIPELINE_ALL") => EnqueuesOne("PIPELINE_ALL", "run_all_companies")
        /\ (SchedulerRows("PIPELINE_ALL")' # SchedulerRows("PIPELINE_ALL")) =>
            TriggerStep("PIPELINE_ALL")
        /\ (sched'.last["PIPELINE_ALL"] # sched.last["PIPELINE_ALL"]) =>
            \/ TriggerStep("PIPELINE_ALL")
            \/ TickStarts /\ sched.last["PIPELINE_ALL"] = NoStamp ]_vars

\* The scheduler queued a fleet run and stamped its time, and a tick of the
\* next day found the interval elapsed again while that run was still active:
\* it went on to the digest (which was not due on the day of the fleet run).
C21_Witness ==
    /\ \E i \in SchedulerRows("PIPELINE_ALL") :
        /\ IsActive(i)
        /\ job_runs[i].created_at >= now - WindowHours
        /\ job_runs[i].created_at \div DayHours < now \div DayHours
        /\ sched.last["PIPELINE_ALL"] = job_runs[i].created_at
        /\ sched.last["DIGEST"] \div DayHours = job_runs[i].created_at \div DayHours
    /\ sched.last["DIGEST"] >= DigestHourUtc
    /\ FleetElapsed
    /\ sched.pc = "trigger"
    /\ sched.tick_at = now
    /\ sched.at = 3

\* Today's configured digest time, for a tick that began at tick_at.
DueDigestTime(tick_at) == (tick_at \div DayHours) * DayHours + DigestHourUtc
\* A step in which a tick decides about the digest: it begins and queues
\* neither of the first two triggers, or it has queued one of them and goes on.
DecidesDigest ==
    /\ sched' # sched
    /\ sched'.at \in {0, 3}
    /\ \/ sched.pc = "sleep"
       \/ /\ sched.pc = "trigger"
          /\ sched.at < 3
          /\ job_runs'[Len(job_runs')].status = "QUEUED"
DigestTickTime == IF sched.pc = "sleep" THEN now ELSE sched.tick_at

TickRun(i) ==
    /\ job_runs[i].company_name = "ALL_ACTIVE_COMPANIES"
    /\ job_runs[i].mode = "QUEUED"
LaunchRun(i) == ~TickRun(i)

\* C28 (checked under SpecJobs): a scheduler tick and a launch request of
\* the same class (PIPELINE_ALL, WEBWATCH, DIGEST) that execute at the same
\* time in one process never both create an active run of that class: of a
\* run of the tick and a run of a request, of one class and created within
\* the overlap window of each other, at most one is active.
C28_TickAndLaunchSerialized ==
    \A i, j \in RunIds :
        (/\ TickRun(i) /\ LaunchRun(j)
         /\ job_runs[i].trigger_type = job_runs[j].trigger_type
         /\ job_runs[i].trigger_type \in {"PIPELINE_ALL", "WEBWATCH", "DIGEST"}
         /\ IsActive(i) /\ IsActive(j))
            => \/ job_runs[j].created_at - job_runs[i].created_at > WindowHours
               \/ job_runs[i].created_at - job_runs[j].created_at > WindowHours

\* C29 (checked under SpecScheduler): once the status of a JobRun is DONE or
\* FAILED no step changes it; in particular a status poll that runs while
\* the worker finishes the run does not put it back to RUNNING or RETRYING.
C29_TerminalStatusIsFinal ==
    [][\A i \in RunIds :
        IsTerminal(i) => job_runs'[i].status = job_runs[i].status]_vars

(***************************************************************************)
(* SpecDownload                                                            *)
(***************************************************************************)
\* the retry life cycle of one URL, with the operator and the clock
InitDownload == JobsStart /\ DownloadStart({UrlList[1]}) /\ WebwatchStart /\ AuxStart

NextDownload ==
    \/ crawl_agent
    \/ webwatch_returns
    \/ download_agent_begin
    \/ _process_one(MaxProcessed)
    \/ update_flags
    \/ classify_agent
    \/ parse_agent
    \/ extract_agent
    \/ excel_agent
    \/ email_agent
    \/ update_ingestion_retry
    \/ DownloadClock

SpecDownload == InitDownload /\ [][NextDownload]_vars

(***************************************************************************)
(* SpecPipeline: pipeline runs over every URL, without the operator        *)
(***************************************************************************)
InitPipeline == JobsStart /\ DownloadStart({UrlList[1], UrlList[2]}) /\ WebwatchStart /\ AuxStart

NextPipeline ==
    \/ crawl_agent
    \/ webwatch_returns
    \/ download_agent_begin
    \/ _process_one(MaxPipelineProcessed)
    \/ update_flags
    \/ classify_agent
    \/ parse_agent
    \/ extract_agent
    \/ excel_agent
    \/ email_agent
    \/ DownloadClock

SpecPipeline == InitPipeline /\ [][NextPipeline]_vars

(***************************************************************************)
(* Claims about change detection and the retry life cycle                  *)
(***************************************************************************)
RetryIds == 1..Len(retries)
\* the ChangeLog rows the run in progress has inserted
RunChanges == SubSeq(change_log, dl.first_change + 1, Len(change_log))
CountDocs(status) ==
    Cardinality({k \in 1..Len(dl.downloaded_docs) : dl.downloaded_docs[k].status = status})
CountChanges(change_type) ==
    Cardinality({k \in 1..Len(RunChanges) : RunChanges[k].change_type = change_type})

\* C4: when update_flags has run, the run has inserted as many ChangeLog rows
\* of type NEW as it has documents with status NEW, as many of type UPDATED
\* as it has documents with status UPDATED, and no other row; has_changes is
\* true exactly when there is such a document or page_changes is non-empty.
C4_ChangeRowsMatchOutcomes ==
    dl.pc = "flagged" =>
        /\ CountChanges("NEW") = CountDocs("NEW")
        /\ CountChanges("UPDATED") = CountDocs("UPDATED")
        /\ Len(RunChanges) = CountDocs("NEW") + CountDocs("UPDATED")
        /\ dl.has_changes =
            (CountDocs("NEW") + CountDocs("UPDATED") > 0 \/ dl.page_changes # <<>>)

\* A finished run with one NEW and one UPDATED document.
C4_Witness ==
    /\ dl.pc = "flagged"
    /\ CountDocs("NEW") = 1
    /\ CountDocs("UPDATED") = 1

\* a step in which a download failed: only such a step writes an ErrorLog row
DownloadFailed == Len(error_log') > Len(error_log)
FailedUrl == error_log'[Len(error_log) + 1].document_url
WroteDeadLetter ==
    \E k \in (Len(error_log) + 1)..Len(error_log') :
        /\ error_log'[k].error_type = "DEAD_LETTER"
        /\ error_log'[k].document_url = FailedUrl

C6_CountOnlyWhilePending ==
    [][\A i \in RetryIds :
        retries'[i].failure_count > retries[i].failure_count =>
            /\ retries[i].status = "PENDING"
            /\ retries'[i].failure_count >= 3 => retries'[i].status = "DEAD"
    ]_vars

\* C6 (amended): failure_count changes only by an increment of one, on a row
\* that is PENDING or DEAD and never on a RESOLVED one; after the increment
\* the row is DEAD if the count is 3 or more and PENDING otherwise.
C6_CountWhileUnresolved ==
    [][\A i \in RetryIds :
        retries'[i].failure_count # retries[i].failure_count =>
            /\ retries[i].status \in {"PENDING", "DEAD"}
            /\ retries'[i].failure_count = retries[i].failure_count + 1
            /\ retries'[i].status =
                IF retries'[i].failure_count >= 3 THEN "DEAD" ELSE "PENDING"
    ]_vars

\* Without the operator, a row has failed a fourth time: the count was
\* incremented on a DEAD row.
C6_Witness ==
    /\ dl.patched = 0
    /\ \E i \in RetryIds :
        retries[i].failure_count = 4 /\ retries[i].status = "DEAD"

\* the step of download_agent that builds the download queue
QueueBuilt == dl.pc = "download_begin" /\ dl'.pc = "download"
HasDeadRow(url) ==
    \E i \in RetryIds :
        /\ retries[i].company_id = dl.company_id
        /\ retries[i].document_url = url
        /\ retries[i].status = "DEAD"

\* C7 (as stated): a URL whose retry record is DEAD is in no download queue
\* that a later run builds.
C7_DeadNeverQueued ==
    [][QueueBuilt => \A k \in 1..Len(dl'.queue) : ~HasDeadRow(dl'.queue[k])]_vars

\* C7 (amended): a download queue holds only the URLs discovered in that run
\* and URLs of rows that are PENDING with failure_count below 3 and due; the
\* retry rows never put the URL of a DEAD record, or of one that has failed 3
\* times, into the queue, a rediscovery by the crawl does.
C7_QueueSources ==
    [][QueueBuilt =>
        \A k \in 1..Len(dl'.queue) :
            \/ dl'.queue[k] \in Range(dl.pdf_urls)
            \/ \E i \in RetryIds :
                /\ retries[i].company_id = dl.company_id
                /\ retries[i].document_url = dl'.queue[k]
                /\ retries[i].status = "PENDING"
                /\ retries[i].failure_count < 3
                /\ retries[i].next_retry_at <= dnow
    ]_vars

\* A queue just built in a run that did not rediscover a URL whose record is
\* DEAD: the URL is not in it.
C7_Witness ==
    /\ dl.pc = "download"
    /\ \E u \in Urls :
        /\ HasDeadRow(u)
        /\ u \notin Range(dl.pdf_urls)
        /\ u \notin Range(dl.queue)
        /\ dl.queue = dl.pdf_urls

\* a step in which _process_one returned the given status for the URL at the
\* head of the queue
Processed(status) ==
    /\ dl'.processed = dl.processed + 1
    /\ Len(dl'.downloaded_docs) = Len(dl.downloaded_docs) + 1
    /\ dl'.downloaded_docs[Len(dl'.downloaded_docs)] =
            [url |-> Head(dl.queue), status |-> status]

\* C8: the step in which a URL ends NEW, UPDATED or UNCHANGED (downloaded, or
\* matched on the HEAD request) also sets every PENDING or DEAD retry row of
\* that company and URL to RESOLVED with next_retry_at cleared, in the same
\* commit as the registry row; no retry row is deleted and no other row is
\* touched.
C8_SuccessResolves ==
    [][\A status \in {"NEW", "UPDATED", "UNCHANGED"} :
        Processed(status) =>
            LET url == Head(dl.queue)
            IN  /\ registry'[url] # NoDoc
                /\ registry'[url].status = status
                /\ Len(retries') = Len(retries)
                /\ \A i \in RetryIds :
                    IF /\ retries[i].company_id = dl.company_id
                       /\ retries[i].document_url = url
                       /\ retries[i].status \in {"PENDING", "DEAD"}
                    THEN retries'[i] = [retries[i] EXCEPT !.status = "RESOLVED",
                                                          !.next_retry_at = NoTime]
                    ELSE retries'[i] = retries[i]
    ]_vars

\* Without the operator, a row that had failed three times is RESOLVED: a
\* success resolved a DEAD row.
C8_Witness ==
    /\ dl.patched = 0
    /\ \E i \in RetryIds :
        /\ retries[i].status = "RESOLVED"
        /\ retries[i].failure_count >= 3
        /\ retries[i].next_retry_at = NoTime
        /\ registry[retries[i].document_url] # NoDoc

\* C32: at any time at most one IngestionRetry row of a (company_id,
\* document_url) is PENDING or DEAD, whatever the download failures, the
\* download successes and the operator's PATCH requests have been.
C32_OneUnresolvedRow ==
    \A i, j \in RetryIds :
        (/\ i # j
         /\ retries[i].company_id = retries[j].company_id
         /\ retries[i].document_url = retries[j].document_url
         /\ retries[i].status \in {"PENDING", "DEAD"})
            => retries[j].status \notin {"PENDING", "DEAD"}

\* a row that is PENDING again after the operator's PATCH although it has
\* failed MAX_RETRY_ATTEMPTS times or more (_upsert_retry_entry leaves such
\* a row DEAD), and whose next_retry_at has come
RequeuedAndDue(i, company_id) ==
    /\ retries[i].company_id = company_id
    /\ retries[i].status = "PENDING"
    /\ retries[i].failure_count >= MAX_RETRY_ATTEMPTS
    /\ retries[i].next_retry_at <= dnow
\* the step in which the graph is entered for a new run
RunStarted == dl'.stages = <<"crawl">> /\ dl' # dl

\* C33: a retry record that the operator re-queued as PENDING is in the
\* download queue of the company's next run that starts at or after its
\* next_retry_at, whatever its failure_count: the run reaches the download
\* stage, and the queue built there holds the URL of the record.
C33_RequeuedRowQueued ==
    [][/\ RunStarted =>
            \A i \in RetryIds : RequeuedAndDue(i, dl'.company_id) => dl'.pc # "end"
       /\ QueueBuilt =>
            \A i \in RetryIds :
                RequeuedAndDue(i, dl.company_id)
                    => retries[i].document_url \in Range(dl'.queue)
    ]_vars

(***************************************************************************)
(* SpecQueue: _build_download_queue on retry tables of any content         *)
(***************************************************************************)
MaxFillers == 51        \* rows of the long retry tables

RetryRow(company_id, url, status, failure_count, next_retry_at) ==
    [company_id |-> company_id, document_url |-> url, status |-> status,
     failure_count |-> failure_count, next_retry_at |-> next_retry_at]

\* what a row can hold besides its key: _upsert_retry_entry leaves PENDING
\* with a next_retry_at and DEAD without one, _resolve_retry_entry RESOLVED
\* without one, and the operator's PATCH any status at any failure_count
\* (a company that is inactive now has the rows of its earlier runs)
RowContents ==
    {<<"PENDING", 1, 0>>, <<"PENDING", 1, ClockStep>>, <<"PENDING", 2, 2 * ClockStep>>,
     <<"PENDING", 3, 0>>, <<"DEAD", 3, NoTime>>, <<"RESOLVED", 1, NoTime>>}
RetryRows ==
    {RetryRow(c, u, x[1], x[2], x[3]) :
        c \in Companies \cup InactiveCompanies, u \in {UrlList[1], UrlList[3]},
        x \in RowContents}
\* the rows that many failed URLs of one run have left, in the order of
\* their creation: PENDING after one failure and due
Fillers(n) ==
    [k \in 1..n |-> RetryRow(Lowest(Companies), "r" \o ToString(k), "PENDING", 1, 0)]
\* tables of at most two rows of any content, and tables that hold more
\* rows than the queue takes, between an older row that is due later and a
\* younger one
RetryTables ==
    {<<>>}
    \cup {<<a>> : a \in RetryRows}
    \cup {<<a, b>> : a, b \in RetryRows}
    \cup {first \o Fillers(n) \o last :
            n \in {MaxFillers - 2, MaxFillers - 1, MaxFillers},
            first \in {<<>>, <<RetryRow(Lowest(Companies), UrlList[3], "PENDING", 1, ClockStep)>>},
            last \in {<<>>, <<RetryRow(Lowest(Companies), UrlList[1], "PENDING", 2, 0)>>,
                      <<RetryRow(Lowest(Companies), UrlList[1], "PENDING", 1, ClockStep)>>}}

QueueStart ==
    /\ site = {UrlList[1], UrlList[2]}
    /\ registry = [u \in Urls |-> NoDoc]
    /\ retries \in RetryTables
    /\ change_log = <<>>
    /\ error_log = <<>>
    /\ dl = IdleDl
    /\ dnow = 0
    /\ digest = NoDigest
    /\ disk = {}
    /\ fetch = NoFetch

InitQueue == JobsStart /\ QueueStart /\ WebwatchStart /\ AuxStart

NextQueue ==
    \/ crawl_agent
    \/ webwatch_returns
    \/ download_agent_begin
    \/ DownloadClock

SpecQueue == InitQueue /\ [][NextQueue]_vars

(***************************************************************************)
(* Claims about the download queue (checked under SpecQueue)               *)
(***************************************************************************)
\* the rows the claim lets into the queue: of this company, PENDING, failed
\* less than 3 times, due
Eligible(i) ==
    /\ retries[i].company_id = dl.company_id
    /\ retries[i].status = "PENDING"
    /\ retries[i].failure_count < 3
    /\ (retries[i].next_retry_at = NoTime \/ retries[i].next_retry_at <= dnow)
\* by next_retry_at, then by created_at
ComesBefore(i, j) ==
    \/ retries[i].next_retry_at < retries[j].next_retry_at
    \/ (retries[i].next_retry_at = retries[j].next_retry_at /\ i < j)
\* the row is among the first 50 of them
Taken(i) ==
    /\ Eligible(i)
    /\ Cardinality({j \in RetryIds : Eligible(j) /\ ComesBefore(j, i)}) < 50
\* the first of them that holds the URL
FirstEligible(url) ==
    CHOOSE i \in RetryIds :
        /\ retries[i].document_url = url
        /\ Eligible(i)
        /\ \A j \in RetryIds :
                (retries[j].document_url = url /\ Eligible(j)) => (j = i \/ ComesBefore(i, j))

\* C34: the queue a run builds is the run's pdf_urls, each once and in their
\* order, followed by URLs of the first 50 IngestionRetry rows of this company
\* that are PENDING with failure_count < 3 and next_retry_at null or not later
\* than now, in the order of next_retry_at then created_at; every such URL is
\* in the queue, none is there twice, and no URL is added from a row that is
\* DEAD, RESOLVED, not yet due or of another company.
C34_QueueContents ==
    [][QueueBuilt =>
        LET p == dl.pdf_urls
            q == dl'.queue
            added == (Len(p) + 1)..Len(q)
        IN  /\ Len(q) >= Len(p)
            /\ SubSeq(q, 1, Len(p)) = p
            /\ Len(q) - Len(p) <= 50
            /\ \A k, l \in 1..Len(q) : k # l => q[k] # q[l]
            /\ \A k \in added :
                \E i \in RetryIds : retries[i].document_url = q[k] /\ Taken(i)
            /\ \A i \in RetryIds : Taken(i) => retries[i].document_url \in Range(q)
            /\ \A k \in added :
                k < Len(q) => ComesBefore(FirstEligible(q[k]), FirstEligible(q[k + 1]))
    ]_vars

\* A queue built from a table of more than 50 due rows, before the clock
\* has moved: the two discovered URLs, the second of UrlList first, then 50
\* URLs of retry rows, while the youngest row of the table, which is due as
\* well, has given none.
C34_Witness ==
    /\ dl.pc = "download"
    /\ dnow = 0
    /\ dl.pdf_urls = <<UrlList[2], UrlList[1]>>
    /\ Len(dl.queue) = 2 + 50
    /\ SubSeq(dl.queue, 1, 2) = dl.pdf_urls
    /\ Len(retries) > 50
    /\ retries[Len(retries)].company_id = dl.company_id
    /\ retries[Len(retries)].status = "PENDING"
    /\ retries[Len(retries)].failure_count < 3
    /\ retries[Len(retries)].next_retry_at <= dnow
    /\ retries[Len(retries)].document_url \notin Range(dl.queue)

(***************************************************************************)
(* SpecWebwatch                                                            *)
(***************************************************************************)
InitWebwatch == JobsStart /\ DownloadStart({}) /\ WebwatchStart /\ AuxStart

\* the passes of one session, one after the other
NextWebwatch ==
    \/ webwatch_agent_begin(MainSession, MaxPasses)
    \/ webwatch_page(MainSession)
    \/ webwatch_agent_return(MainSession)

SpecWebwatch == InitWebwatch /\ [][NextWebwatch]_vars

\* the tables and the session after the first pass of the WebWatch task,
\* which found and fetched the base page of the company
WebwatchAfterFirstPass ==
    \E c \in Companies, page_hash \in PageHashes :
        LET session == process_page(
                [snaps |-> <<>>, changes |-> <<>>, detected_changes |-> <<>>],
                c, BaseUrl, page_hash, {})
        IN  /\ snapshots = session.snaps
            /\ page_changes = session.changes
            /\ ww = [s \in WwSessions |->
                    IF s = "webwatch"
                    THEN [IdleWw EXCEPT !.pc = "returned", !.passes = 1,
                                        !.company_id = c,
                                        !.all_pages = {BaseUrl},
                                        !.fresh = TRUE,
                                        !.detected_changes = session.detected_changes]
                    ELSE IdleWw]

\* pipeline runs of a site with one PDF and the digest task, before any
\* WebWatch pass or after the first one
InitDigest ==
    /\ JobsStart
    /\ DownloadStart({UrlList[1]})
    /\ (WebwatchStart \/ WebwatchAfterFirstPass)
    /\ AuxStart
NextDigest ==
    \/ crawl_agent
    \/ webwatch_returns
    \/ download_agent_begin
    \/ _process_one(MaxDigestProcessed)
    \/ update_flags
    \/ classify_agent
    \/ parse_agent
    \/ extract_agent
    \/ excel_agent
    \/ email_agent
    \/ run_daily_digest
SpecDigest == InitDigest /\ [][NextDigest]_vars

\* calls of _process_one for the three documents of a company, and files
\* that disappear from the download folder
InitFiles == JobsStart /\ DownloadStart(Urls) /\ WebwatchStart /\ AuxStart
NextFiles ==
    \/ _process_one_on_disk(MaxFetches)
    \/ file_removed(MaxMissing)
SpecFiles == InitFiles /\ [][NextFiles]_vars

\* the webwatch stage of a pipeline run and a WebWatch task at the same time
InitWebwatchRace == JobsStart /\ DownloadStart({}) /\ WebwatchStart /\ AuxStart
NextWebwatchRace ==
    \E s \in WwSessions :
        \/ webwatch_agent_begin(s, MaxRacePasses)
        \/ webwatch_page(s)
        \/ webwatch_agent_return(s)
SpecWebwatchRace == InitWebwatchRace /\ [][NextWebwatchRace]_vars

(***************************************************************************)
(* Claims about page snapshots (checked under SpecWebwatch)                *)
(***************************************************************************)
\* the PageChange rows committed since the pass of the session began
PassChanges(s) == SubSeq(page_changes, ww[s].first_change + 1, Len(page_changes))
CountPassChanges(s, page_url, change_type) ==
    Cardinality({k \in 1..Len(PassChanges(s)) :
        /\ PassChanges(s)[k].page_url = page_url
        /\ PassChanges(s)[k].change_type = change_type})
CountPageChanges(page_url, change_type) ==
    Cardinality({k \in 1..Len(page_changes) :
        /\ page_changes[k].page_url = page_url
        /\ page_changes[k].change_type = change_type})

\* the stored snapshot row of a page, NoSnap if it has none
StoredId(snaps, page_url) ==
    LET ids == {i \in 1..Len(snaps) : snaps[i].page_url = page_url}
    IN  IF ids = {} THEN NoSnap ELSE Highest(ids)

\* C9: when a pass has returned, every page it did not discover that had an
\* active snapshot when it began has exactly one PAGE_DELETED row from this
\* pass and its snapshot, still there, has is_active false; a page it did
\* not discover whose snapshot was already inactive has no PAGE_DELETED row
\* from this pass.
C9_AbsentPageDeletedOnce ==
    \A s \in WwSessions :
        ww[s].pc = "returned" =>
            \A p \in WebPages \ ww[s].all_pages :
                LET id == StoredId(snapshots, p)
                IN  /\ p \in ww[s].known_active =>
                        /\ CountPassChanges(s, p, "PAGE_DELETED") = 1
                        /\ id # NoSnap
                        /\ ~snapshots[id].is_active
                    /\ p \notin ww[s].known_active =>
                        CountPassChanges(s, p, "PAGE_DELETED") = 0

\* a step of the page loop that commits the page at the head of the list,
\* whose stored snapshot is inactive
Reappears(p) ==
    /\ \E s \in WwSessions :
        /\ ww[s].pc = "pages"
        /\ ww[s].todo # <<>>
        /\ Head(ww[s].todo) = p
        /\ ww'[s].todo = Tail(ww[s].todo)
    /\ StoredId(snapshots, p) # NoSnap
    /\ ~snapshots[StoredId(snapshots, p)].is_active
    /\ snapshots' # snapshots
RecordsPageAdded(p) ==
    \E k \in (Len(page_changes) + 1)..Len(page_changes') :
        /\ page_changes'[k].page_url = p
        /\ page_changes'[k].change_type = "PAGE_ADDED"

\* C10 (as stated): the pass that finds a page again whose snapshot is
\* inactive records a PAGE_ADDED change for it.
C10_ReappearanceIsPageAdded ==
    [][\A p \in WebPages : Reappears(p) => RecordsPageAdded(p)]_vars

\* C10 (amended): the pass that finds a page again whose snapshot is
\* inactive, and fetches it, sets is_active of that same row back to true;
\* it records no PAGE_ADDED for the page and adds no snapshot row.
C10_ReappearanceReactivates ==
    [][\A p \in WebPages :
        Reappears(p) =>
            LET id == StoredId(snapshots, p)
            IN  /\ ~RecordsPageAdded(p)
                /\ Len(snapshots') = Len(snapshots)
                /\ StoredId(snapshots', p) = id
                /\ snapshots'[id].is_active
    ]_vars

\* A page that was added, deleted and found again: one snapshot row, active,
\* with one PAGE_ADDED and one PAGE_DELETED in page_changes.
C10_Witness ==
    \E p \in WebPages, c \in Companies :
        /\ CountPageChanges(p, "PAGE_DELETED") = 1
        /\ CountPageChanges(p, "PAGE_ADDED") = 1
        /\ Cardinality(SnapIds(snapshots, c, p)) = 1
        /\ snapshots[StoredId(snapshots, p)].is_active

\* C35: when a pass has returned, every change event in the page_changes it
\* returned has a PageChange row of that page and type committed during the
\* pass, and the snapshot of every page returned as PAGE_DELETED is stored
\* with is_active false, also when fetches of the pass have failed.
C35_ReturnedChangesCommitted ==
    \A s \in WwSessions :
        ww[s].pc = "returned" =>
            \A k \in 1..Len(ww[s].detected_changes) :
                LET event == ww[s].detected_changes[k]
                    id == StoredId(snapshots, event.page_url)
                IN  /\ CountPassChanges(s, event.page_url, event.change_type) >= 1
                    /\ event.change_type = "PAGE_DELETED" =>
                        (id # NoSnap /\ ~snapshots[id].is_active)

(***************************************************************************)
(* Claims about concurrent WebWatch passes (checked under SpecWebwatchRace) *)
(***************************************************************************)
\* C11: whatever passes have run and however they interleaved, the table
\* holds at most one PageSnapshot row for a (company_id, page_url), and
\* page_changes at most one PAGE_ADDED for a page that appeared once (no
\* PAGE_DELETED in between).
C11_OneSnapshotPerPage ==
    \A c \in Companies, p \in WebPages :
        /\ Cardinality(SnapIds(snapshots, c, p)) <= 1
        /\ CountPageChanges(p, "PAGE_DELETED") = 0 =>
                CountPageChanges(p, "PAGE_ADDED") <= 1

(***************************************************************************)
(* Claims about the workflow graph (checked under SpecPipeline)            *)
(***************************************************************************)
StageOrder ==
    <<"crawl", "webwatch", "download", "update_flags", "classify", "parse",
      "extract", "excel", "email">>

\* C12: the stages an invocation has run so far are the first stages of
\* crawl, webwatch, download, update_flags, classify, parse, extract, excel,
\* email, each once and in that order; an invocation that has reached the end
\* of the graph ran crawl, excel or email last.
C12_StagesInOrder ==
    /\ Len(dl.stages) <= Len(StageOrder)
    /\ \A k \in 1..Len(dl.stages) : dl.stages[k] = StageOrder[k]
    /\ dl.pc = "end" =>
            dl.stages[Len(dl.stages)] \in {"crawl", "excel", "email"}

\* An invocation that ran all nine stages and reached the end.
C12_Witness == dl.pc = "end" /\ dl.stages = StageOrder

\* C13: every invocation that is over has run the webwatch stage, whatever
\* the crawl stage found.
C13_WebwatchInEveryRun ==
    dl.pc \in {"end", "raised"} => "webwatch" \in Range(dl.stages)

(***************************************************************************)
(* Claims about the emails (checked under SpecDigest)                      *)
(***************************************************************************)
\* C14: a pipeline run whose state has email_sent true has has_changes true;
\* a digest that was sent had a document change or a page change in its
\* window.
C14_NoEmailWithoutChanges ==
    /\ dl.email_sent => dl.has_changes
    /\ digest.sent => digest.doc_changes + digest.page_changes > 0

\* A run with has_changes false went through excel to the end without an
\* email, and a digest found its window empty although both tables have rows.
C14_Witness ==
    /\ dl.pc = "end"
    /\ "excel" \in Range(dl.stages)
    /\ ~dl.has_changes
    /\ ~dl.email_sent
    /\ change_log # <<>>
    /\ page_changes # <<>>
    /\ digest.reason = "No changes in last 24h"

(***************************************************************************)
(* Claims about the downloaded files (checked under SpecFiles)             *)
(***************************************************************************)
FinalFiles(files) == {f \in files : f.path.folder = "final"}
Fetched == fetch'.calls # fetch.calls
\* the call received a payload that does not begin with %PDF-
BadPayload == fetch'.payload # NoPayload /\ fetch'.payload.prefix # "%PDF-"
SameDocument(old, new) ==
    \/ new = old
    \/ /\ old # NoDoc
       /\ new = [old EXCEPT !.status = new.status]

LiveTwins(url, file_hash) ==
    {u \in Urls \ {url} :
        /\ registry[u] # NoDoc
        /\ registry[u].file_hash = file_hash
        /\ Exists(disk, registry[u].local_path)}

\* C16: a call of _process_one that downloaded a PDF with hash h while some
\* other document with hash h had its file on disk returns deduplicated
\* true, leaves no new file in the final folder, and a document it creates
\* or updates gets the local_path of the last created of those documents.
C16_ReusesNewestTwin ==
    [][(Fetched /\ fetch'.status \in {"NEW", "UPDATED", "UNCHANGED"}
                /\ fetch'.payload # NoPayload) =>
        LET twins == LiveTwins(fetch'.url, fetch'.payload.sha256)
        IN  twins # {} =>
                /\ fetch'.deduplicated
                /\ FinalFiles(disk') \subseteq FinalFiles(disk)
                /\ fetch'.status \in {"NEW", "UPDATED"} =>
                        \E u \in twins :
                            /\ \A v \in twins :
                                    registry[v].created_at <= registry[u].created_at
                            /\ fetch'.local_path = registry[u].local_path
    ]_vars

====
